---- MODULE Spec2Model ----
(***************************************************************************)
(* The oracle settlement scheduler of ServerAgent                          *)
(* (src/src/templates/server_agent.py) and the settlement sink             *)
(* OracleClient.settle_price (src/src/agent/oracle_client.py).             *)
(*                                                                         *)
(* One cycle (_process_pending_requests) is a sequence of steps, one per   *)
(* external call it makes: the pending/block fetch, a generator call, a    *)
(* sandbox run, a settlement call.  Each step carries the code that runs   *)
(* up to the next external call.                                           *)
(***************************************************************************)
EXTENDS Integers, Sequences, FiniteSets, TLC

\* ---------------------------------------------------------------- bounds
MaxBlocks == 5
MaxPending == 2

\* ------------------------------------------------------ program constants
recently_settled_window == 300
max_ai_failures == 3
ai_failure_backoff == 180
max_ai_prepare_attempts == 3
max_ai_settlement_attempts == 2

\* ------------------------------------------------------------ environment
\* The source and the chain are explored in slices: one request over a long
\* run of blocks (every boundary of the two time windows is crossed), two
\* requests over a short one, one request over the blocks up to the backoff
\* window, where the history of the retry loops is kept, and one request over a
\* short run where the debug directory is followed.  One slice takes calls of
\* the sandbox executor on their own, over every output of MaxLines lines, and
\* the last one puts a cycle next to what else runs in its process or on its
\* account, on one request and one block.
Worlds == {"single", "pair", "retry", "debug", "sandbox", "server", "unit"}
Ids == {"r1", "r2"}
IdsOf(w) == IF w = "pair" THEN Ids ELSE {"r1"}
BlockTimeline == <<0, 60, 180, 300, 360, 480, 540, 660>>
BlockTimesOf(w) ==
    LET n == IF w = "single" THEN MaxBlocks ELSE IF w = "retry" THEN 3
             ELSE IF w = "server" THEN 1 ELSE 2
    IN {BlockTimeline[i] : i \in 1..(IF n < Len(BlockTimeline) THEN n ELSE Len(BlockTimeline))}
GraceChoicesOf(w) == IF w \in {"pair", "sandbox"} THEN {0} ELSE {0, 60}
OverridePricesOf(w) == IF w = "single" THEN {0, 5} ELSE {5}
TxHashes == {"0xaa"}

RequestTimestamp(id) == IF id = "r2" THEN 60 ELSE 0
RequestIdentifier(id) == "0x5945535f4f525f4e4f"
RequestAncillary(id) == IF id = "r1" THEN "Is BTC above 50000?" ELSE "Is ETH above 4000?"

\* OracleRequest as fetch_request builds it
OracleRequest(id, settled) ==
    [request_id |-> id,
     timestamp |-> RequestTimestamp(id),
     identifier |-> RequestIdentifier(id),
     ancillary_data |-> RequestAncillary(id),
     settled |-> settled]

PendingEntries(w) == {OracleRequest(id, s) : id \in IdsOf(w), s \in BOOLEAN}
PendingAnswers(w) == UNION {[1..n -> PendingEntries(w)] : n \in 1..MaxPending}

\* ----------------------------------------------------------- python dicts
EmptyDict == [k \in {} |-> 0]
Pop(d, key) == [k \in DOMAIN d \ {key} |-> d[k]]
Put(d, key, v) == [k \in DOMAIN d \cup {key} |-> IF k = key THEN v ELSE d[k]]
Get(d, key) == IF key \in DOMAIN d THEN <<d[key]>> ELSE <<>>

None == "<None>"
Truthy(s) == s # None /\ s # ""

\* ------------------------------------------------- generator and sandbox
\* A generated script, by the facts of its syntax tree that _analyze_script reads.
Script(src, parses, has_resolve, resolve_returns, has_main_guard, imports) ==
    [src |-> src, parses |-> parses, has_resolve |-> has_resolve,
     resolve_returns |-> resolve_returns, has_main_guard |-> has_main_guard,
     imports |-> imports]

ScriptHigh == Script("complete", TRUE, TRUE, TRUE, TRUE, {"requests", "json"})
ScriptMedium == Script("no_guard", TRUE, TRUE, TRUE, FALSE, {"requests", "json"})
ScriptNoResolve == Script("no_entry", TRUE, FALSE, FALSE, TRUE, {"requests"})
ScriptNoReturn == Script("no_return", TRUE, TRUE, FALSE, TRUE, {"requests", "json"})
ScriptSyntaxError == Script("syntax_error", FALSE, FALSE, FALSE, FALSE, {})
ScriptBare == Script("bare", TRUE, TRUE, TRUE, FALSE, {"os"})
GeneratedScriptsOf(w) ==
    IF w \in {"single", "retry"} THEN {ScriptHigh, ScriptMedium, ScriptNoResolve}
    ELSE IF w = "debug"
    THEN {ScriptHigh, ScriptMedium, ScriptBare, ScriptNoResolve, ScriptNoReturn,
          ScriptSyntaxError}
    ELSE {ScriptHigh, ScriptNoResolve}
\* str(exc) of what generate_python_script raises: _call_openai wraps every provider
\* error, _validate_generated_code names what the text lacks; never an empty message
GeneratorErrors ==
    {"AI generation failed: connection refused", "Generated code missing execution guard"}

\* The result record of _execute_generated_python
ExecutionResult(success, stdout, stderr, decision, reason) ==
    [success |-> success, stdout |-> stdout, stderr |-> stderr,
     decision |-> decision, reason |-> reason, data |-> None]

\* Lines a script prints.  Output is a sequence of lines (str.splitlines).
MaxLines == 3
LineYes == "{\"decision\": \"yes\", \"reason\": \"above\"}"
LineNo == "{\"decision\": \"NO\", \"reason\": \"below\"}"
LinePadded == "{\"decision\": \" No \"}"
LineMaybe == "{\"decision\": \"maybe\"}"
LinePrice == "{\"price\": 1}"
LineEmpty == "{}"
LineList == "[\"YES\"]"
LineNull == "null"
LineLog == "fetching price"
LineSpaces == "  "
OutputLines ==
    {LineYes, LinePadded, LineMaybe, LinePrice, LineEmpty, LineList, LineNull, LineLog, LineSpaces}
Outputs == UNION {[1..n -> OutputLines] : n \in 0..MaxLines}

\* python values that json.loads returns, by what the executor reads of them
JsonObject(members) == [type |-> "dict", truthy |-> DOMAIN members # {}, members |-> members]
JsonValue(type, truthy) == [type |-> type, truthy |-> truthy, members |-> EmptyDict]

\* json.loads(line): <<value>>, or <<>> where it raises JSONDecodeError
ParseJson(line) ==
    IF line = LineYes THEN <<JsonObject([decision |-> "yes", reason |-> "above"])>>
    ELSE IF line = LineNo THEN <<JsonObject([decision |-> "NO", reason |-> "below"])>>
    ELSE IF line = LinePadded THEN <<JsonObject([decision |-> " No "])>>
    ELSE IF line = LineMaybe THEN <<JsonObject([decision |-> "maybe"])>>
    ELSE IF line = LinePrice THEN <<JsonObject([price |-> 1])>>
    ELSE IF line = LineEmpty THEN <<JsonObject(EmptyDict)>>
    ELSE IF line = LineList THEN <<JsonValue("list", TRUE)>>
    ELSE IF line = LineNull THEN <<JsonValue("NoneType", FALSE)>>
    ELSE <<>>

\* line.strip()
StripLine(line) == IF line = LineSpaces THEN "" ELSE line
NonBlank(line) == StripLine(line) # ""

\* faulty variant: the scan runs from the first line
RECURSIVE ScanLines_Forward(_, _)
ScanLines_Forward(lines, i) ==
    IF lines = <<>> THEN <<>>
    ELSE IF ParseJson(Head(lines)) # <<>> THEN ParseJson(Head(lines))
    ELSE ScanLines_Forward(Tail(lines), i)

\* the loop of _extract_json_payload over reversed(lines), at index i from the end
RECURSIVE ScanLines(_, _)
ScanLines(lines, i) ==
    IF i = 0 THEN <<>>
    ELSE IF ParseJson(lines[i]) # <<>> THEN ParseJson(lines[i])
    ELSE ScanLines(lines, i - 1)

\* _extract_json_payload: <<>> where no line is reached that parses
ExtractJsonPayload(stdout) ==
    LET lines == SelectSeq([i \in 1..Len(stdout) |-> StripLine(stdout[i])], NonBlank)
    IN ScanLines(lines, Len(lines))

RECURSIVE JoinLines(_)
JoinLines(lines) ==
    IF lines = <<>> THEN ""
    ELSE IF Len(lines) = 1 THEN lines[1]
    ELSE lines[1] \o "\n" \o JoinLines(Tail(lines))

\* proc.stdout.strip(): the text between the first and the last non-blank line
StripText(stdout) ==
    LET kept == {i \in 1..Len(stdout) : NonBlank(stdout[i])}
    IN IF kept = {} THEN ""
       ELSE LET first == CHOOSE i \in kept : \A j \in kept : i <= j
                final == CHOOSE i \in kept : \A j \in kept : j <= i
            IN JoinLines(SubSeq(stdout, first, final))

\* what subprocess.run did: the exception it raised ("" when it returned), and
\* the exit code and output of the process it ran
Process(returncode, stdout, stderr) ==
    [raised |-> "", returncode |-> returncode, stdout |-> stdout, stderr |-> stderr]
Aborted(exception) ==
    [raised |-> exception, returncode |-> 0, stdout |-> <<>>, stderr |-> ""]
TimeoutExpired == "TimeoutExpired"
SpawnErrors == {"[Errno 12] Cannot allocate memory"}

\* payload.get(key, default)
DictGet(members, key, default) == IF key \in DOMAIN members THEN members[key] ELSE default

\* str(...).strip().upper() on the decisions the scripts print
Upper(text) ==
    IF text \in {"yes", "Yes", "YES"} THEN "YES"
    ELSE IF text \in {"no", "No", "NO", " No "} THEN "NO"
    ELSE IF text = "maybe" THEN "MAYBE"
    ELSE text

\* faulty variant: the exit code is not looked at
ExitedWithError_Never(proc) == FALSE

\* line 574
ExitedWithError(proc) == proc.returncode # 0

\* lines 551-595 of _execute_generated_python
ExecuteGeneratedPython(proc) ==
    LET stdout == StripText(proc.stdout)
        failure == ExecutionResult(FALSE, stdout, proc.stderr, "UNKNOWN", None)
        payload == ExtractJsonPayload(proc.stdout)
    IN IF proc.raised = TimeoutExpired
       THEN ExecutionResult(FALSE, "", "Execution timed out", "UNKNOWN", None)
       ELSE IF proc.raised # ""
       THEN ExecutionResult(FALSE, "", proc.raised, "UNKNOWN", None)
       ELSE IF ExitedWithError(proc) THEN failure
       ELSE IF payload = <<>> \/ ~payload[1].truthy THEN failure
       ELSE IF payload[1].type # "dict"
       THEN ExecutionResult(FALSE, stdout, "'list' object has no attribute 'get'", "UNKNOWN", None)
       ELSE LET decision == Upper(DictGet(payload[1].members, "decision", ""))
            IN IF decision \notin {"YES", "NO"} THEN failure
               ELSE ExecutionResult(TRUE, stdout, proc.stderr, decision,
                                    DictGet(payload[1].members, "reason", None))

ExecutionYes == ExecuteGeneratedPython(Process(0, <<LineYes>>, ""))
ExecutionNo == ExecuteGeneratedPython(Process(0, <<LineNo>>, ""))
ExecutionCrash == ExecuteGeneratedPython(Process(1, <<>>, "Traceback"))
ExecutionSilent == ExecuteGeneratedPython(Process(0, <<>>, ""))
ExecutionMaybe == ExecuteGeneratedPython(Process(0, <<LineLog, LineMaybe>>, ""))
ExecutionResultsOf(w) ==
    IF w = "single" THEN {ExecutionYes, ExecutionNo, ExecutionCrash, ExecutionSilent}
    ELSE IF w = "retry" THEN {ExecutionYes, ExecutionCrash, ExecutionSilent}
    ELSE IF w = "debug" THEN {ExecutionYes, ExecutionCrash, ExecutionSilent, ExecutionMaybe}
    ELSE {ExecutionYes, ExecutionCrash}

\* ---------------------------------------------------------------- state
VARIABLES
    world,                \* the slice of the environment being explored
    chain_now,            \* timestamp of the latest block
    oracle_client,        \* whether the settlement sink is configured
    ai_generator,         \* whether the generator was constructed
    oracle_grace_seconds,
    recently_settled,     \* _recently_settled: id -> block time
    failure_state,        \* _failure_state: id -> [count, last]
    prepared_requests,    \* _prepared_requests: id -> prepared payload
    evidence_store,       \* the evidence directory: id -> evidence record
    pc,                   \* "idle", "loop", "generate", "execute", "settle"
    pending,              \* requests of the cycle not yet handled; the head is current
    now_ts,
    price_override,       \* <<>> for None, else <<price>>
    results,
    caller,               \* who called _prepare_request: "loop" or "resolve"
    p_attempts,           \* attempts of _prepare_request
    p_context,            \* previous_code/error entries of the generator context
    record_failure,
    r_attempts,           \* attempts of _resolve_request_with_ai
    r_prepared,           \* prepared of _resolve_request_with_ai
    s_price, s_evidence, s_hash,   \* arguments of the settlement call
    s_nonce,              \* nonce of the transaction being built: <<>> before
                          \* _tx_params, then <<"current">>, or <<"used">> once
                          \* another transaction of the account took it
    last,                 \* history: what the latest step did
    last_ok,              \* history: id -> block time of its latest successful settlement
    retry_due,            \* history: ids whose latest settlement call failed
    streak,               \* history: id -> consecutive cycles that handled it and failed
    cycle_log,            \* history: id -> what the running cycle did for it
    early_script,         \* history: id -> script cached before the deadline, not yet run
    failed_exec,          \* history: id -> script and error of its latest failed run
    debug_dir,            \* ORACLE_DEBUG_DIR: id -> artifacts of its latest failed run
    tmp_files,            \* script files in the temporary directory
    sandbox,              \* a call of _execute_generated_python taken on its own
    manual,               \* settle_pending_requests of the server: its worker thread
    cancel_requested,     \* Task.cancel() was called on the task running the cycle
    parked,               \* a second cycle on the agent, suspended at an await
    served,               \* parity of the steps other tasks of the event loop took
    unit,                 \* a call of one of the pure helpers, taken on its own
    watcher               \* _oracle_task and the watch-loop tasks created so far

config == <<world, oracle_client, ai_generator, oracle_grace_seconds>>
stores == <<recently_settled, failure_state, prepared_requests, evidence_store>>
plocals == <<caller, p_attempts, p_context, record_failure>>
rlocals == <<r_attempts, r_prepared>>
slocals == <<s_price, s_evidence, s_hash, s_nonce>>
history == <<last_ok, retry_due>>
trail == <<streak, cycle_log, early_script, failed_exec>>
elsewhere == <<served, unit, watcher>>
others == <<manual, cancel_requested, parked, elsewhere>>
aside == <<debug_dir, tmp_files, sandbox, others>>
vars == <<chain_now, config, aside, stores, pc, pending, now_ts, price_override, results,
          plocals, rlocals, slocals, last, history, trail>>

\* None where a script is expected
NoCode == Script(None, FALSE, FALSE, FALSE, FALSE, {})
NoContext == [previous_code |-> NoCode, error |-> None]
NoEvidence == EmptyDict
NoHash == [keccak |-> <<>>]

InitIn(w) ==
    /\ world = w
    /\ chain_now = 0
    /\ oracle_client \in BOOLEAN
    /\ ai_generator \in BOOLEAN
    /\ oracle_grace_seconds \in GraceChoicesOf(w)
    /\ recently_settled = EmptyDict
    /\ failure_state = EmptyDict
    /\ prepared_requests = EmptyDict
    /\ evidence_store = EmptyDict
    /\ pc = "idle"
    /\ pending = <<>>
    /\ now_ts = 0
    /\ price_override = <<>>
    /\ results = <<>>
    /\ caller = "none"
    /\ p_attempts = 0
    /\ p_context = NoContext
    /\ record_failure = TRUE
    /\ r_attempts = 0
    /\ r_prepared = <<>>
    /\ s_price = 0
    /\ s_evidence = NoEvidence
    /\ s_hash = NoHash
    /\ s_nonce = <<>>
    /\ last = [kind |-> "init"]
    /\ last_ok = EmptyDict
    /\ retry_due = {}
    /\ streak = EmptyDict
    /\ cycle_log = EmptyDict
    /\ early_script = EmptyDict
    /\ failed_exec = EmptyDict
    /\ debug_dir = EmptyDict
    /\ tmp_files = {}
    /\ sandbox = [pc |-> "idle"]
    /\ manual = [pc |-> "idle"]
    /\ cancel_requested = FALSE
    /\ parked = <<>>
    /\ served = 0
    /\ unit = [fn |-> "none"]
    /\ watcher = [oracle_task |-> <<>>, tasks |-> <<>>, call |-> "none", calls |-> 0]

Init == InitIn("single")
InitPair == InitIn("pair")
InitRetry == InitIn("retry")
InitDebug == InitIn("debug")

\* -------------------------------------------------------- pure functions
\* faulty variant: a warning makes the result unsuccessful
AnalyzeScript_WarningsBlock(code) ==
    IF ~code.parses
    THEN [success |-> FALSE, issues |-> <<"Syntax error on line N">>, warnings |-> <<>>]
    ELSE LET issues ==
                 IF ~code.has_resolve THEN <<"resolve_oracle() function not defined">>
                 ELSE IF ~code.resolve_returns
                      THEN <<"resolve_oracle() does not return a value">>
                      ELSE <<>>
             warnings ==
                 (IF ~code.has_main_guard THEN <<"Missing main guard">> ELSE <<>>)
                 \o (IF "requests" \notin code.imports
                     THEN <<"requests module not imported">> ELSE <<>>)
                 \o (IF "json" \notin code.imports
                     THEN <<"json module not imported">> ELSE <<>>)
         IN [success |-> Len(issues) = 0 /\ Len(warnings) = 0,
             issues |-> issues, warnings |-> warnings]

\* _analyze_script, on the syntax-tree facts of a script
AnalyzeScript(code) ==
    IF ~code.parses
    THEN [success |-> FALSE, issues |-> <<"Syntax error on line N">>, warnings |-> <<>>]
    ELSE LET issues ==
                 IF ~code.has_resolve THEN <<"resolve_oracle() function not defined">>
                 ELSE IF ~code.resolve_returns
                      THEN <<"resolve_oracle() does not return a value">>
                      ELSE <<>>
             warnings ==
                 (IF ~code.has_main_guard THEN <<"Missing main guard">> ELSE <<>>)
                 \o (IF "requests" \notin code.imports
                     THEN <<"requests module not imported">> ELSE <<>>)
                 \o (IF "json" \notin code.imports
                     THEN <<"json module not imported">> ELSE <<>>)
         IN [success |-> Len(issues) = 0, issues |-> issues, warnings |-> warnings]

\* faulty variant: warnings do not lower the label
ConfidenceLabel_WarningsIgnored(analysis) == IF ~analysis.success THEN "LOW" ELSE "HIGH"

\* _confidence_label
ConfidenceLabel(analysis) ==
    IF ~analysis.success THEN "LOW"
    ELSE IF analysis.warnings = <<>> THEN "HIGH" ELSE "MEDIUM"

\* "; ".join(issues): _analyze_script never reports more than one issue
JoinIssues(issues) == IF issues = <<>> THEN "" ELSE issues[1]

PreparedPayload(code, analysis, request) ==
    [script |-> code,
     analysis |-> analysis,
     confidence |-> ConfidenceLabel(analysis),
     ancillary |-> request.ancillary_data,
     preparedAt |-> "utcnow"]

\* faulty variant: the grace period is left out of the deadline
ReadyToSettle_NoGrace(request, now) == ~(now < request.timestamp)

ReadyToSettle(request, now) ==
    LET deadline == request.timestamp + oracle_grace_seconds
    IN ~(now < deadline)

\* faulty variant: the backoff window includes its end
BackedOff_Inclusive(id, now) ==
    /\ id \in DOMAIN failure_state
    /\ failure_state[id].count >= max_ai_failures
    /\ now - failure_state[id].last <= ai_failure_backoff

\* lines 130-135: the request sits in its backoff window
BackedOff(id, now) ==
    /\ id \in DOMAIN failure_state
    /\ failure_state[id].count >= max_ai_failures
    /\ now - failure_state[id].last < ai_failure_backoff

\* faulty variant: nothing is ever dropped
PruneRecentlySettled_KeepsAll(now) == recently_settled

\* faulty variant: an entry exactly as old as the window is dropped
PruneRecentlySettled_Strict(now) ==
    LET expiration == now - recently_settled_window
    IN [k \in {x \in DOMAIN recently_settled : recently_settled[x] > expiration}
          |-> recently_settled[k]]

\* line 119
PruneRecentlySettled(now) ==
    LET expiration == now - recently_settled_window
    IN [k \in {x \in DOMAIN recently_settled : recently_settled[x] >= expiration}
          |-> recently_settled[k]]

\* faulty variant: the count is not capped
RecordAiFailure_Uncapped(fs, id, now) ==
    LET state == IF id \in DOMAIN fs THEN fs[id] ELSE [count |-> 0, last |-> 0]
    IN Put(fs, id, [count |-> state.count + 1, last |-> now])

\* _record_ai_failure (lines 471-477)
RecordAiFailure(fs, id, now) ==
    LET state == IF id \in DOMAIN fs THEN fs[id] ELSE [count |-> 0, last |-> 0]
        count == IF state.count + 1 < max_ai_failures
                 THEN state.count + 1 ELSE max_ai_failures
    IN Put(fs, id, [count |-> count, last |-> now])

\* faulty variant: the settled request is not remembered
MarkRecentlySettled_Forgotten(settled, id, now) == settled

\* line 165
MarkRecentlySettled(settled, id, now) == Put(settled, id, now)

\* faulty variant: the failure state outlives the success
ForgetFailures_Kept(fs, id) == fs

\* lines 166 and 335
ForgetFailures(fs, id) == Pop(fs, id)

BuildManualEvidence(request, price, settled_at) ==
    [requestId |-> request.request_id,
     identifier |-> request.identifier,
     timestamp |-> request.timestamp,
     ancillary |-> request.ancillary_data,
     decision |-> "OVERRIDE",
     reason |-> "Operator-supplied price override",
     price |-> price,
     settledAt |-> settled_at]

\* faulty variant: the two prices are swapped
DecisionPrice_Swapped(decision) == IF decision = "YES" THEN 0 ELSE 1

\* line 433
DecisionPrice(decision) == IF decision = "YES" THEN 1 ELSE 0

\* the evidence of _execute_prepared_script (lines 431-451)
BuildAiEvidence(request, prepared, execution) ==
    [requestId |-> request.request_id,
     identifier |-> request.identifier,
     timestamp |-> request.timestamp,
     ancillary |-> prepared.ancillary,
     decision |-> execution.decision,
     reason |-> execution.reason,
     price |-> DecisionPrice(execution.decision),
     data |-> execution.data,
     script |-> prepared.script,
     stdout |-> execution.stdout,
     stderr |-> execution.stderr,
     executedAt |-> "utcnow",
     analysis |-> prepared.analysis,
     analysisConfidence |-> prepared.confidence,
     preparedAt |-> prepared.preparedAt]

\* json.dumps(evidence, sort_keys=True): the items of the record in key order
SortedKeys ==
    <<"analysis", "analysisConfidence", "ancillary", "data", "decision", "executedAt",
      "identifier", "preparedAt", "price", "reason", "requestId", "script",
      "settledAt", "stderr", "stdout", "timestamp", "txHash">>

IsKeyOf(d, k) == k \in DOMAIN d

JsonDumpsSorted(d) ==
    LET keys == SelectSeq(SortedKeys, LAMBDA k : IsKeyOf(d, k))
    IN [i \in 1..Len(keys) |-> <<keys[i], d[keys[i]]>>]

\* Web3.keccak(text=...): collision-free on the texts of the model
Keccak(text) == [keccak |-> text]

\* faulty variant: the evidence is serialized in the order its keys were inserted
InsertionKeys ==
    <<"requestId", "identifier", "timestamp", "ancillary", "decision", "reason", "price",
      "data", "script", "stdout", "stderr", "executedAt", "analysis",
      "analysisConfidence", "preparedAt", "settledAt", "txHash">>
EvidenceHash_InsertionOrder(evidence) ==
    LET keys == SelectSeq(InsertionKeys, LAMBDA k : IsKeyOf(evidence, k))
    IN Keccak([i \in 1..Len(keys) |-> <<keys[i], evidence[keys[i]]>>])

EvidenceHash(evidence) == Keccak(JsonDumpsSorted(evidence))

\* lines 153-155: the evidence the AI path hands to the hash
SettledEvidence(evidence, now) == Put(evidence, "settledAt", now)

\* faulty variant: the transaction hash is not attached
AttachTxHash_Dropped(evidence, tx_hash) == evidence

\* line 168
AttachTxHash(evidence, tx_hash) == Put(evidence, "txHash", tx_hash)

WithoutKey(d, key) == Pop(d, key)

\* ----------------------------------------------------------------- steps
\* faulty variant: the loop body is given the last request of the list
Current_Last == pending[Len(pending)]

\* the request the loop body runs for
Current == Head(pending)
CurrentId == Current.request_id

ResetLocals ==
    /\ caller' = "none"
    /\ p_attempts' = 0
    /\ p_context' = NoContext
    /\ record_failure' = TRUE
    /\ r_attempts' = 0
    /\ r_prepared' = <<>>
    /\ s_price' = 0
    /\ s_evidence' = NoEvidence
    /\ s_hash' = NoHash
    /\ s_nonce' = <<>>

\* `continue`, or the end of the loop body: on to the next request
NextRequest ==
    /\ pending' = Tail(pending)
    /\ pc' = "loop"
    /\ ResetLocals

\* what a step of the loop body records about the request it looked at
Seen(kind) ==
    [kind |-> kind, request |-> Current, entry |-> Get(failure_state, CurrentId),
     due |-> CurrentId \in retry_due]
During(kind, more) ==
    [k \in {"kind", "request", "entry", "before", "early", "failed", "log"}
            \cup DOMAIN more |->
        IF k = "kind" THEN kind
        ELSE IF k = "request" THEN Current
        ELSE IF k = "entry" THEN last.entry
        ELSE IF k = "before" THEN Get(failure_state, CurrentId)
        ELSE IF k = "early" THEN Get(early_script, CurrentId)
        ELSE IF k = "failed" THEN Get(failed_exec, CurrentId)
        ELSE IF k = "log" THEN Get(cycle_log, CurrentId)
        ELSE more[k]]

\* the history of the retry loops is kept in the slice made for it
Track(kept, updated) == IF world = "retry" THEN updated ELSE kept

\* and so is the debug directory, which no step reads back
Traced(kept, updated) == IF world = "debug" THEN updated ELSE kept

\* what the running cycle has done for a request so far
NoLog == [execs |-> 0, raised |-> FALSE, failed |-> FALSE, bumps |-> 0]
CountOf(fs, id) == IF id \in DOMAIN fs THEN fs[id].count ELSE 0
LogOf(id) == IF id \in DOMAIN cycle_log THEN cycle_log[id] ELSE NoLog
PutLog(id, entry) == IF entry = NoLog THEN Pop(cycle_log, id) ELSE Put(cycle_log, id, entry)
Ran(executed) == IF executed THEN 1 ELSE 0

\* the pipeline of the current request ends this pass in failure
PipelineFailed(raised, executed) ==
    LET log == LogOf(CurrentId)
        n == IF CurrentId \in DOMAIN streak THEN streak[CurrentId] ELSE 0
        rose == IF CountOf(failure_state', CurrentId) > CountOf(failure_state, CurrentId)
                THEN 1 ELSE 0
    IN /\ streak' = IF log.failed THEN streak
                    ELSE Track(streak,
                               Put(streak, CurrentId,
                                   IF n + 1 < max_ai_failures THEN n + 1
                                   ELSE max_ai_failures))
       /\ cycle_log' = Track(cycle_log,
                             PutLog(CurrentId, [execs |-> log.execs + Ran(executed),
                                                raised |-> log.raised \/ raised,
                                                failed |-> TRUE,
                                                bumps |-> log.bumps + rose]))

\* the pipeline of the current request goes on to its next call
PipelineGoesOn(executed) ==
    LET log == LogOf(CurrentId)
    IN /\ cycle_log' = Track(cycle_log,
                             PutLog(CurrentId, [log EXCEPT !.execs = @ + Ran(executed)]))
       /\ UNCHANGED streak

\* the pipeline of the current request ends this pass without a failure
PipelineDone(executed) ==
    LET log == LogOf(CurrentId)
    IN /\ cycle_log' = Track(cycle_log,
                             PutLog(CurrentId, [log EXCEPT !.execs = @ + Ran(executed),
                                                           !.failed = FALSE]))
       /\ streak' = Pop(streak, CurrentId)

\* the cache entry behind an early script is dropped without having been run
DropEarly(id) ==
    IF id \in DOMAIN early_script
    THEN Put(early_script, id, [early_script[id] EXCEPT !.dropped = TRUE])
    ELSE early_script

\* lines 108-109
CycleWithoutClient ==
    /\ pc = "idle"
    /\ ~oracle_client
    /\ results' = <<>>
    /\ last' = [kind |-> "no_client"]
    /\ UNCHANGED <<chain_now, config, aside, stores, pc, pending, now_ts, price_override,
                   plocals, rlocals, slocals, history, trail>>

\* lines 111-113: the source reports nothing pending
CycleStartEmpty(block_ts) ==
    /\ pc = "idle"
    /\ ~cancel_requested
    /\ oracle_client
    /\ chain_now' = block_ts
    /\ results' = <<>>
    /\ pending' = <<>>
    /\ last' = [kind |-> "start_empty"]
    /\ UNCHANGED <<config, aside, stores, pc, now_ts, price_override,
                   plocals, rlocals, slocals, history, trail>>

\* lines 111-120
CycleStart(block_ts, answer, override) ==
    /\ pc = "idle"
    /\ ~cancel_requested
    /\ oracle_client
    /\ answer # <<>>
    /\ chain_now' = block_ts
    /\ now_ts' = block_ts
    /\ recently_settled' = PruneRecentlySettled(block_ts)
    /\ results' = <<>>
    /\ pending' = answer
    /\ price_override' = override
    /\ pc' = "loop"
    /\ last' = [kind |-> "start"]
    /\ UNCHANGED <<config, aside, failure_state, prepared_requests, evidence_store,
                   plocals, rlocals, slocals, history, trail>>

InLoop == pc = "loop" /\ pending # <<>>

\* lines 124-126
SkipSettled ==
    /\ InLoop
    /\ Current.settled
    /\ prepared_requests' = Pop(prepared_requests, CurrentId)
    /\ last' = Seen("skip_settled")
    /\ early_script' = DropEarly(CurrentId)
    /\ NextRequest
    /\ UNCHANGED <<chain_now, config, aside, recently_settled, failure_state, evidence_store,
                   now_ts, price_override, results, history,
                   streak, cycle_log, failed_exec>>

\* lines 127-128
SkipRecentlySettled ==
    /\ InLoop
    /\ ~Current.settled
    /\ CurrentId \in DOMAIN recently_settled
    /\ last' = Seen("skip_recent")
    /\ retry_due' = retry_due \ {CurrentId}
    /\ NextRequest
    /\ UNCHANGED <<chain_now, config, aside, stores, now_ts, price_override, results,
                   last_ok, trail>>

\* faulty variant: the settled flag of the fetched request is not looked at
Unsuppressed_IgnoresSettledFlag ==
    /\ InLoop
    /\ CurrentId \notin DOMAIN recently_settled

Unsuppressed ==
    /\ InLoop
    /\ ~Current.settled
    /\ CurrentId \notin DOMAIN recently_settled

\* lines 130-135
SkipBackoff ==
    /\ Unsuppressed
    /\ BackedOff(CurrentId, now_ts)
    /\ last' = Seen("skip_backoff")
    /\ retry_due' = retry_due \ {CurrentId}
    /\ NextRequest
    /\ UNCHANGED <<chain_now, config, aside, stores, now_ts, price_override, results,
                   last_ok, trail>>

Eligible == Unsuppressed /\ ~BackedOff(CurrentId, now_ts)

\* faulty variant: the price override is not looked at before preparing
NeedsPrepare_IgnoresOverride == CurrentId \notin DOMAIN prepared_requests

\* faulty variant: the cache is not looked at before preparing
NeedsPrepare_IgnoresCache == price_override = <<>>

\* line 137
NeedsPrepare == price_override = <<>> /\ CurrentId \notin DOMAIN prepared_requests

\* lines 137-141 with lines 268-269: no generator, nothing prepared, continue
SkipUnprepared ==
    /\ Eligible
    /\ NeedsPrepare
    /\ ~ai_generator
    /\ last' = Seen("skip_unprepared")
    /\ retry_due' = retry_due \ {CurrentId}
    /\ NextRequest
    /\ UNCHANGED <<chain_now, config, aside, stores, now_ts, price_override, results,
                   last_ok, trail>>

\* lines 137-138 with lines 268-298: _prepare_request reaches its first generator call
EnterPrepare ==
    /\ Eligible
    /\ NeedsPrepare
    /\ ai_generator
    /\ pc' = "generate"
    /\ caller' = "loop"
    /\ p_attempts' = 0
    /\ p_context' = NoContext
    /\ record_failure' = TRUE
    /\ last' = Seen("prepare")
    /\ retry_due' = retry_due \ {CurrentId}
    /\ UNCHANGED <<chain_now, config, aside, stores, pending, now_ts, price_override, results,
                   rlocals, slocals, last_ok, trail>>

\* lines 143-144
SkipNotReady ==
    /\ Eligible
    /\ ~NeedsPrepare
    /\ ~ReadyToSettle(Current, now_ts)
    /\ last' = Seen("skip_not_ready")
    /\ retry_due' = retry_due \ {CurrentId}
    /\ NextRequest
    /\ UNCHANGED <<chain_now, config, aside, stores, now_ts, price_override, results,
                   last_ok, trail>>

\* lines 146-148 and 157-158: the override path reaches the settlement call
EnterOverride ==
    /\ Eligible
    /\ price_override # <<>>
    /\ ReadyToSettle(Current, now_ts)
    /\ LET price == price_override[1]
           evidence == BuildManualEvidence(Current, price, now_ts)
       IN /\ s_price' = price
          /\ s_evidence' = evidence
          /\ s_hash' = EvidenceHash(evidence)
          /\ s_nonce' = <<>>
    /\ pc' = "settle"
    /\ last' = Seen("override")
    /\ retry_due' = retry_due \ {CurrentId}
    /\ streak' = Pop(streak, CurrentId)
    /\ UNCHANGED <<chain_now, config, aside, stores, pending, now_ts, price_override, results,
                   plocals, rlocals, last_ok, cycle_log, early_script, failed_exec>>

\* lines 150, 216-225, 237-242: a cached script reaches the sandbox
EnterResolve ==
    /\ Eligible
    /\ price_override = <<>>
    /\ CurrentId \in DOMAIN prepared_requests
    /\ ReadyToSettle(Current, now_ts)
    /\ ai_generator
    /\ r_prepared' = <<prepared_requests[CurrentId]>>
    /\ r_attempts' = 0
    /\ pc' = "execute"
    /\ last' = Seen("resolve")
    /\ retry_due' = retry_due \ {CurrentId}
    /\ UNCHANGED <<chain_now, config, aside, stores, pending, now_ts, price_override, results,
                   plocals, slocals, last_ok, trail>>

PyOr(a, b) == IF Truthy(a) THEN a ELSE b

\* faulty variant: one more pass of the prepare loop than configured
PrepareBudgetLeft_OneMore(attempts) == attempts < max_ai_prepare_attempts

\* line 300, after `attempts += 1` of line 340
PrepareBudgetLeft(attempts) == attempts + 1 < max_ai_prepare_attempts

\* faulty variant: one more pass of the execution loop than configured
ExecutionBudgetLeft_OneMore(attempts) == attempts < max_ai_settlement_attempts

\* line 225, after `attempts += 1` of line 254
ExecutionBudgetLeft(attempts) == attempts + 1 < max_ai_settlement_attempts

\* faulty variant: the script that failed stays in the cache
DiscardPrepared_Kept(cache, id) == cache

\* line 252
DiscardPrepared(cache, id) == Pop(cache, id)

\* faulty variant: the prepare step records its failure for either caller, and
\* the resolution records it once more
PrepareFailed_CountsTwice(last_error) ==
    LET recorded ==
            IF Truthy(last_error)
            THEN RecordAiFailure(failure_state, CurrentId, now_ts)
            ELSE failure_state
    IN /\ failure_state' =
              IF caller = "resolve" /\ Truthy(last_error)
              THEN RecordAiFailure(recorded, CurrentId, now_ts)
              ELSE recorded
       /\ NextRequest

\* lines 342-344, then the caller: line 139-141 in the loop, lines 233-235 and
\* 256-258 in _resolve_request_with_ai; either way the loop continues
PrepareFailed(last_error) ==
    LET recorded ==
            IF record_failure /\ Truthy(last_error)
            THEN RecordAiFailure(failure_state, CurrentId, now_ts)
            ELSE failure_state
    IN /\ failure_state' =
              IF caller = "resolve" /\ Truthy(last_error)
              THEN RecordAiFailure(recorded, CurrentId, now_ts)
              ELSE recorded
       /\ NextRequest

\* faulty variant: a generator call that raised is tried again
GenerateRaises_Retries(message) ==
    /\ pc = "generate"
    /\ ~cancel_requested
    /\ IF PrepareBudgetLeft(p_attempts)
       THEN /\ p_attempts' = p_attempts + 1
            /\ UNCHANGED <<failure_state, pc, pending, caller, p_context, record_failure,
                           rlocals, slocals, streak, cycle_log>>
       ELSE PrepareFailed(message) /\ PipelineFailed(TRUE, FALSE)
    /\ last' = During("gen", [context |-> p_context, outcome |-> "raised",
                              error |-> message, code |-> NoCode,
                              attempt |-> p_attempts + 1, caller |-> caller,
                              fail |-> ~PrepareBudgetLeft(p_attempts)])
    /\ UNCHANGED <<chain_now, config, aside, recently_settled, prepared_requests, evidence_store,
                   now_ts, price_override, results, history, early_script, failed_exec>>

\* lines 300-310: the generator call raises
GenerateRaises(message) ==
    /\ pc = "generate"
    /\ ~cancel_requested
    /\ PrepareFailed(message)
    /\ PipelineFailed(TRUE, FALSE)
    /\ last' = During("gen", [context |-> p_context, outcome |-> "raised",
                              error |-> message, code |-> NoCode,
                              attempt |-> p_attempts + 1, caller |-> caller,
                              fail |-> TRUE])
    /\ UNCHANGED <<chain_now, config, aside, recently_settled, prepared_requests, evidence_store,
                   now_ts, price_override, results, history, early_script, failed_exec>>

\* lines 312-322 and 338-344: the script has a hard issue
GenerateRejected(code) ==
    LET analysis == AnalyzeScript(code)
        last_error == PyOr(JoinIssues(analysis.issues), "Analysis failed")
    IN /\ pc = "generate"
       /\ ~cancel_requested
       /\ ~analysis.success
       /\ IF PrepareBudgetLeft(p_attempts)
          THEN /\ p_attempts' = p_attempts + 1
               /\ p_context' = [previous_code |-> code, error |-> last_error]
               /\ UNCHANGED <<failure_state, pc, pending, caller, record_failure,
                              rlocals, slocals, streak, cycle_log>>
          ELSE PrepareFailed(last_error) /\ PipelineFailed(FALSE, FALSE)
       /\ last' = During("gen", [context |-> p_context, outcome |-> "rejected",
                                 error |-> last_error, code |-> code,
                                 analysis |-> analysis,
                                 confidence |-> ConfidenceLabel(analysis),
                                 attempt |-> p_attempts + 1, caller |-> caller,
                                 fail |-> ~PrepareBudgetLeft(p_attempts)])
       /\ UNCHANGED <<chain_now, config, aside, recently_settled, prepared_requests,
                      evidence_store, now_ts, price_override, results, history,
                      early_script, failed_exec>>

\* faulty variant: the script is cached whatever its analysis says
GeneratePrepared_Unchecked(code) ==
    LET analysis == AnalyzeScript(code)
        payload == PreparedPayload(code, analysis, Current)
    IN /\ pc = "generate"
       /\ ~cancel_requested
       /\ prepared_requests' = Put(prepared_requests, CurrentId, payload)
       /\ failure_state' = IF record_failure THEN ForgetFailures(failure_state, CurrentId)
                           ELSE failure_state
       /\ IF caller = "loop" /\ ~ReadyToSettle(Current, now_ts)
          THEN /\ NextRequest
               /\ PipelineDone(FALSE)
               /\ early_script' = Track(early_script,
                                        Put(early_script, CurrentId,
                                            [script |-> code, dropped |-> FALSE]))
          ELSE /\ pc' = "execute"
               /\ r_prepared' = <<payload>>
               /\ r_attempts' = IF caller = "loop" THEN 0 ELSE r_attempts
               /\ early_script' = Pop(early_script, CurrentId)
               /\ UNCHANGED <<pending, plocals, slocals, streak, cycle_log>>
       /\ last' = During("gen", [context |-> p_context, outcome |-> "prepared",
                                 error |-> None, code |-> code,
                                 analysis |-> analysis,
                                 confidence |-> ConfidenceLabel(analysis),
                                 attempt |-> p_attempts + 1, caller |-> caller,
                                 fail |-> FALSE])
       /\ UNCHANGED <<chain_now, config, aside, recently_settled, evidence_store,
                      now_ts, price_override, results, history, failed_exec>>

\* lines 312-336, then the caller: lines 139-150 and 219-242 in the loop,
\* lines 233-242 in _resolve_request_with_ai
GeneratePrepared(code) ==
    LET analysis == AnalyzeScript(code)
        payload == PreparedPayload(code, analysis, Current)
    IN /\ pc = "generate"
       /\ ~cancel_requested
       /\ analysis.success
       /\ prepared_requests' = Put(prepared_requests, CurrentId, payload)
       /\ failure_state' = IF record_failure THEN ForgetFailures(failure_state, CurrentId)
                           ELSE failure_state
       /\ IF caller = "loop" /\ ~ReadyToSettle(Current, now_ts)
          THEN /\ NextRequest
               /\ PipelineDone(FALSE)
               /\ early_script' = Track(early_script,
                                        Put(early_script, CurrentId,
                                            [script |-> code, dropped |-> FALSE]))
          ELSE /\ pc' = "execute"
               /\ r_prepared' = <<payload>>
               /\ r_attempts' = IF caller = "loop" THEN 0 ELSE r_attempts
               /\ early_script' = Pop(early_script, CurrentId)
               /\ UNCHANGED <<pending, plocals, slocals, streak, cycle_log>>
       /\ last' = During("gen", [context |-> p_context, outcome |-> "prepared",
                                 error |-> None, code |-> code,
                                 analysis |-> analysis,
                                 confidence |-> ConfidenceLabel(analysis),
                                 attempt |-> p_attempts + 1, caller |-> caller,
                                 fail |-> FALSE])
       /\ UNCHANGED <<chain_now, config, aside, recently_settled, evidence_store,
                      now_ts, price_override, results, history, failed_exec>>

\* lines 242-244 and 150-158: the sandbox run yields a decision
ExecuteSucceeds(execution) ==
    /\ pc = "execute"
    /\ execution.success
    /\ LET evidence == SettledEvidence(BuildAiEvidence(Current, r_prepared[1], execution),
                                       now_ts)
       IN /\ s_price' = DecisionPrice(execution.decision)
          /\ s_evidence' = evidence
          /\ s_hash' = EvidenceHash(evidence)
          /\ s_nonce' = <<>>
    /\ pc' = "settle"
    /\ PipelineDone(TRUE)
    /\ early_script' = Pop(early_script, CurrentId)
    /\ failed_exec' = Pop(failed_exec, CurrentId)
    /\ last' = During("exec", [script |-> r_prepared[1].script, success |-> TRUE,
                               run |-> execution, error |-> None,
                               attempt |-> r_attempts + 1, fail |-> FALSE])
    /\ UNCHANGED <<chain_now, config, aside, stores, pending, now_ts, price_override, results,
                   plocals, rlocals, history>>

\* faulty variant: only the script is kept
PersistExecutionDebug_ScriptOnly(dir, request_id, code, execution, completed) ==
    IF completed = 0 THEN dir ELSE Put(dir, request_id, [py |-> code])

\* _persist_execution_debug: the files of one failed run, written in the order of
\* lines 463-467 until a write raises (completed counts the writes that did not);
\* the exception is caught at line 468
PersistExecutionDebug(dir, request_id, code, execution, completed) ==
    LET writes == <<[file |-> "py", text |-> code]>>
                  \o (IF Truthy(execution.stderr)
                      THEN <<[file |-> "stderr", text |-> execution.stderr]>> ELSE <<>>)
                  \o (IF Truthy(execution.stdout)
                      THEN <<[file |-> "stdout", text |-> execution.stdout]>> ELSE <<>>)
        done == IF completed < Len(writes) THEN completed ELSE Len(writes)
        files == {writes[i].file : i \in 1..done}
    IN IF done = 0 THEN dir
       ELSE Put(dir, request_id,
                [f \in files |-> writes[CHOOSE i \in 1..done : writes[i].file = f].text])

DebugWritesOf(w) == IF w = "debug" THEN 0..3 ELSE {3}

\* lines 453-455 and 246-258: the sandbox run fails
ExecuteFails(execution, completed) ==
    LET error_message == PyOr(execution.stderr, execution.stdout)
        last_error == PyOr(error_message, "Execution failure")
    IN /\ pc = "execute"
       /\ ~execution.success
       /\ prepared_requests' = DiscardPrepared(prepared_requests, CurrentId)
       /\ IF ExecutionBudgetLeft(r_attempts)
          THEN /\ r_attempts' = r_attempts + 1
               /\ r_prepared' = <<>>
               /\ pc' = "generate"
               /\ caller' = "resolve"
               /\ p_attempts' = 0
               /\ p_context' = [previous_code |-> r_prepared[1].script,
                                error |-> last_error]
               /\ record_failure' = FALSE
               /\ PipelineGoesOn(TRUE)
               /\ UNCHANGED <<failure_state, pending, slocals>>
          ELSE /\ failure_state' = RecordAiFailure(failure_state, CurrentId, now_ts)
               /\ PipelineFailed(FALSE, TRUE)
               /\ NextRequest
       /\ early_script' = Pop(early_script, CurrentId)
       /\ failed_exec' = Track(failed_exec,
                               Put(failed_exec, CurrentId,
                                   [previous_code |-> r_prepared[1].script,
                                    error |-> last_error]))
       /\ debug_dir' = Traced(debug_dir,
                              PersistExecutionDebug(debug_dir, CurrentId, r_prepared[1].script,
                                                    execution, completed))
       /\ last' = During("exec", [script |-> r_prepared[1].script, success |-> FALSE,
                                  run |-> execution, error |-> last_error,
                                  returned |-> error_message, completed |-> completed,
                                  attempt |-> r_attempts + 1,
                                  fail |-> ~ExecutionBudgetLeft(r_attempts)])
       /\ UNCHANGED <<chain_now, config, tmp_files, sandbox, others, recently_settled,
                      evidence_store,
                      now_ts, price_override, results, history>>

\* what becomes of a nonce read by _tx_params once another transaction of the
\* account is mined
Overtaken(nonce) == IF nonce = <<>> THEN <<>> ELSE <<"used">>
OvertakenManual ==
    IF manual.pc = "work" THEN [manual EXCEPT !.nonce = Overtaken(@)] ELSE manual
OvertakenParked ==
    IF parked = <<>> THEN <<>> ELSE <<[parked[1] EXCEPT !.s_nonce = Overtaken(@)]>>

\* settle_price up to build_transaction (oracle_client.py 81-87): _tx_params reads
\* the transaction count of the account.  A cycle that has the account to itself
\* takes this step together with the next one.
SettleBuilds ==
    /\ pc = "settle"
    /\ ~cancel_requested
    /\ s_nonce = <<>>
    /\ s_nonce' = <<"current">>
    /\ UNCHANGED <<chain_now, config, aside, stores, pc, pending, now_ts, price_override,
                   results, plocals, rlocals, s_price, s_evidence, s_hash, last, history,
                   trail>>

\* _persist_evidence: the write, or a failure that is only logged
PersistEvidence(store, request_id, evidence, written) ==
    IF written THEN Put(store, request_id, evidence) ELSE store

\* settle_price returns the transaction hash; lines 164-178
SettleSucceeds(tx_hash, written) ==
    /\ pc = "settle"
    /\ ~cancel_requested
    /\ s_nonce # <<"used">>
    /\ manual' = OvertakenManual
    /\ parked' = OvertakenParked
    /\ recently_settled' = MarkRecentlySettled(recently_settled, CurrentId, now_ts)
    /\ failure_state' = ForgetFailures(failure_state, CurrentId)
    /\ prepared_requests' = Pop(prepared_requests, CurrentId)
    /\ evidence_store' =
           PersistEvidence(evidence_store, CurrentId, AttachTxHash(s_evidence, tx_hash),
                           written)
    /\ results' = Append(results, [requestId |-> CurrentId,
                                   timestamp |-> Current.timestamp,
                                   price |-> s_price,
                                   txHash |-> tx_hash])
    /\ NextRequest
    /\ last' = During("settle", [ok |-> TRUE, price |-> s_price, hash |-> s_hash,
                                 tx |-> <<tx_hash>>, written |-> written,
                                 prev_ok |-> Get(last_ok, CurrentId),
                                 failures_before |-> <<>>, evidence_before |-> <<>>])
    /\ last_ok' = Put(last_ok, CurrentId, now_ts)
    /\ retry_due' = retry_due \ {CurrentId}
    /\ early_script' = DropEarly(CurrentId)
    /\ UNCHANGED <<chain_now, config, debug_dir, tmp_files, sandbox, cancel_requested, elsewhere,
                   now_ts, price_override, streak, cycle_log, failed_exec>>

\* faulty variant: the request is marked as recently settled before the call is known
\* to have succeeded
SettleFails_MarksRecentlySettled ==
    /\ pc = "settle"
    /\ ~cancel_requested
    /\ pc' = "idle"
    /\ pending' = Tail(pending)
    /\ ResetLocals
    /\ recently_settled' = Put(recently_settled, CurrentId, now_ts)
    /\ last' = During("settle", [ok |-> FALSE, price |-> s_price, hash |-> s_hash,
                                 tx |-> <<>>, written |-> FALSE,
                                 prev_ok |-> Get(last_ok, CurrentId),
                                 failures_before |-> Get(failure_state, CurrentId),
                                 evidence_before |-> Get(evidence_store, CurrentId)])
    /\ retry_due' = retry_due \cup {CurrentId}
    /\ cycle_log' = EmptyDict
    /\ UNCHANGED <<chain_now, config, aside, failure_state, prepared_requests, evidence_store,
                   now_ts, price_override, results, last_ok,
                   streak, early_script, failed_exec>>

\* settle_price raises (lines 89-92 of oracle_client.py); nothing in the loop
\* catches it, so it leaves _process_pending_requests with the rest of the
\* pending list unhandled
SettleFails ==
    /\ pc = "settle"
    /\ ~cancel_requested
    /\ pc' = "idle"
    /\ pending' = Tail(pending)
    /\ ResetLocals
    /\ last' = During("settle", [ok |-> FALSE, price |-> s_price, hash |-> s_hash,
                                 tx |-> <<>>, written |-> FALSE,
                                 prev_ok |-> Get(last_ok, CurrentId),
                                 failures_before |-> Get(failure_state, CurrentId),
                                 evidence_before |-> Get(evidence_store, CurrentId)])
    /\ retry_due' = retry_due \cup {CurrentId}
    /\ cycle_log' = EmptyDict
    /\ UNCHANGED <<chain_now, config, aside, stores, now_ts, price_override, results,
                   last_ok, streak, early_script, failed_exec>>

\* line 180
CycleEnd ==
    /\ pc = "loop"
    /\ pending = <<>>
    /\ pc' = "idle"
    /\ last' = [kind |-> "end"]
    /\ cycle_log' = EmptyDict
    /\ UNCHANGED <<chain_now, config, aside, stores, pending, now_ts, price_override, results,
                   plocals, rlocals, slocals, history, streak, early_script, failed_exec>>

LaterBlockTimes == {t \in BlockTimesOf(world) : t >= chain_now}
Overrides == {<<>>} \cup {<<p>> : p \in OverridePricesOf(world)}

Next ==
    \/ CycleWithoutClient
    \/ \E t \in LaterBlockTimes : CycleStartEmpty(t)
    \/ \E t \in LaterBlockTimes, answer \in PendingAnswers(world), override \in Overrides :
           CycleStart(t, answer, override)
    \/ SkipSettled
    \/ SkipRecentlySettled
    \/ SkipBackoff
    \/ SkipUnprepared
    \/ EnterPrepare
    \/ SkipNotReady
    \/ EnterOverride
    \/ EnterResolve
    \/ \E message \in GeneratorErrors : GenerateRaises(message)
    \/ \E code \in GeneratedScriptsOf(world) : GenerateRejected(code)
    \/ \E code \in GeneratedScriptsOf(world) : GeneratePrepared(code)
    \/ \E execution \in ExecutionResultsOf(world) : ExecuteSucceeds(execution)
    \/ \E execution \in ExecutionResultsOf(world), completed \in DebugWritesOf(world) :
          ExecuteFails(execution, completed)
    \/ \E tx_hash \in TxHashes, written \in BOOLEAN : SettleSucceeds(tx_hash, written)
    \/ SettleFails
    \/ CycleEnd

Spec == Init /\ [][Next]_vars
SpecPair == InitPair /\ [][Next]_vars
SpecRetry == InitRetry /\ [][Next]_vars
SpecDebug == InitDebug /\ [][Next]_vars

\* ------------------------------------------------- the sandbox on its own
\* Calls of _execute_generated_python, one after the other, over every outcome of
\* subprocess.run.
scheduler == <<chain_now, config, stores, pc, pending, now_ts, price_override, results,
               plocals, rlocals, slocals, last, history, trail>>

ExitCodes == {0, 1}
ProcessOutcomes ==
    {Process(returncode, stdout, stderr) :
        returncode \in ExitCodes, stdout \in Outputs, stderr \in {"", "Traceback"}}
    \cup {Aborted(TimeoutExpired)} \cup {Aborted(exception) : exception \in SpawnErrors}

ScriptPath == "/tmp/tmpk3v9.py"

\* faulty variant: the file is left behind
Unlink_Skipped(files, path) == files

\* os.unlink(script_path) of the finally clause; the OSError of a missing file
\* is passed over
Unlink(files, path) == files \ {path}

\* lines 560-562: the script is written to a named temporary file that is kept
SandboxCall ==
    /\ world = "sandbox"
    /\ sandbox.pc \in {"idle", "returned"}
    /\ sandbox' = [pc |-> "running", script_path |-> ScriptPath]
    /\ tmp_files' = tmp_files \cup {ScriptPath}
    /\ UNCHANGED <<scheduler, debug_dir, others>>

\* lines 564-600: the process ends (or subprocess.run raises), the result is
\* built, the file is removed.  gone: the script deleted its own file.
SandboxReturn(proc, gone) ==
    /\ world = "sandbox"
    /\ sandbox.pc = "running"
    /\ sandbox' = [pc |-> "returned", script_path |-> sandbox.script_path,
                   proc |-> proc, result |-> ExecuteGeneratedPython(proc)]
    /\ tmp_files' = Unlink(IF gone THEN tmp_files \ {sandbox.script_path} ELSE tmp_files,
                           sandbox.script_path)
    /\ UNCHANGED <<scheduler, debug_dir, others>>

NextSandbox ==
    \/ SandboxCall
    \/ /\ sandbox.pc = "running"
       /\ \E proc \in ProcessOutcomes, gone \in BOOLEAN : SandboxReturn(proc, gone)

InitSandbox == InitIn("sandbox") /\ ~oracle_client /\ ~ai_generator
SpecSandbox == InitSandbox /\ [][NextSandbox]_vars

\* ------------------------------------------- the manual settlement path
\* settle_pending_requests of deployment/local_agent_server.py: the worker thread
\* it starts (lines 192-205) signs with the account of the agent's oracle client.
InitServer == InitIn("server")

\* lines 188-194 and 207: the thread is started and fetches the pending list
ManualStart(answer) ==
    /\ oracle_client
    /\ manual.pc = "idle"
    /\ manual' = [pc |-> "work", pending |-> answer, nonce |-> <<>>, results |-> <<>>]
    /\ UNCHANGED <<scheduler, debug_dir, tmp_files, sandbox, cancel_requested, parked, elsewhere>>

ManualWorks == manual.pc = "work" /\ manual.pending # <<>>

\* lines 195-196
ManualSkip ==
    /\ ManualWorks
    /\ Head(manual.pending).settled
    /\ manual' = [manual EXCEPT !.pending = Tail(@)]
    /\ UNCHANGED <<scheduler, debug_dir, tmp_files, sandbox, cancel_requested, parked, elsewhere>>

\* lines 197-198, settle_price up to build_transaction
ManualBuilds ==
    /\ ManualWorks
    /\ ~Head(manual.pending).settled
    /\ manual.nonce = <<>>
    /\ manual' = [manual EXCEPT !.nonce = <<"current">>]
    /\ UNCHANGED <<scheduler, debug_dir, tmp_files, sandbox, cancel_requested, parked, elsewhere>>

\* settle_price from sign_transaction on, then lines 199-204: the transaction is
\* mined with the nonce it was built with
ManualSends ==
    /\ ManualWorks
    /\ manual.nonce = <<"current">>
    /\ manual' = [manual EXCEPT !.pending = Tail(@), !.nonce = <<>>,
                                !.results = Append(@, Head(manual.pending).request_id)]
    /\ s_nonce' = Overtaken(s_nonce)
    /\ parked' = OvertakenParked
    /\ UNCHANGED <<chain_now, config, stores, pc, pending, now_ts, price_override, results,
                   plocals, rlocals, s_price, s_evidence, s_hash, last, history, trail,
                   debug_dir, tmp_files, sandbox, cancel_requested, elsewhere>>

\* settle_price raises (the node refuses a nonce already used, or the receipt
\* reports a failure): the exception leaves the thread and the handler
ManualFails ==
    /\ ManualWorks
    /\ manual.nonce # <<>>
    /\ manual' = [pc |-> "idle"]
    /\ UNCHANGED <<scheduler, debug_dir, tmp_files, sandbox, cancel_requested, parked, elsewhere>>

\* lines 205-207
ManualEnd ==
    /\ manual.pc = "work"
    /\ manual.pending = <<>>
    /\ manual' = [pc |-> "idle"]
    /\ UNCHANGED <<scheduler, debug_dir, tmp_files, sandbox, cancel_requested, parked, elsewhere>>

NextManual ==
    \/ Next
    \/ SettleBuilds
    \/ \E answer \in PendingAnswers(world) : ManualStart(answer)
    \/ ManualSkip
    \/ ManualBuilds
    \/ ManualSends
    \/ ManualFails
    \/ ManualEnd

SpecManual == InitServer /\ [][NextManual]_vars

\* ----------------------------------------------------------------- claims
SettleCalled == last.kind = "settle"
SettledOk == SettleCalled /\ last.ok
LastId == last.request.request_id

\* C1: no settlement call is issued for a pending request whose settled flag
\* was true when it was fetched, on the AI path and on the override path.
C1_NoSettlementForSettledRequest ==
    /\ SettleCalled => ~last.request.settled
    /\ pc \in {"generate", "execute", "settle"} => ~Current.settled

\* C1 witness: a settled request that was past its deadline in an override
\* cycle was looked at and skipped.
C1_Witness ==
    /\ last.kind = "skip_settled"
    /\ price_override # <<>>
    /\ ~(now_ts < last.request.timestamp + oracle_grace_seconds)
    /\ LastId \notin DOMAIN recently_settled

\* C2 (as claimed): at most one successful settlement call per request id, over
\* any sequence of cycles and any answers of the source.
C2_AtMostOneSuccessfulSettlement ==
    SettledOk => last.prev_ok = <<>>

\* C2 (amended): two successful settlement calls for the same request id are
\* more than the recently-settled window (300 s of block time) apart.
C2_SuccessfulSettlementsOutsideWindow ==
    (SettledOk /\ last.prev_ok # <<>>) =>
        now_ts - last.prev_ok[1] > recently_settled_window

\* C2 witness: a request is settled successfully a second time.
C2_Witness == SettledOk /\ last.prev_ok # <<>>

\* C3: after a successful settlement of R at block time t, no cycle with
\* now - t <= 300 issues a settlement call for R (whatever its outcome), though
\* the source still reports R pending and unsettled, once or several times.
C3_NoSettlementCallInsideWindow ==
    /\ (SettleCalled /\ last.prev_ok # <<>>) =>
           ~(now_ts - last.prev_ok[1] <= recently_settled_window)
    /\ (pc = "settle" /\ CurrentId \in DOMAIN last_ok) =>
           ~(now_ts - last_ok[CurrentId] <= recently_settled_window)

\* C3 witness: R, still reported unsettled, is skipped in a cycle exactly 300 s
\* after its settlement.
C3_Witness ==
    /\ last.kind = "skip_recent"
    /\ LastId \in DOMAIN last_ok
    /\ now_ts - last_ok[LastId] = recently_settled_window

\* C4: while now < timestamp + grace_seconds there is neither a sandbox run nor
\* a settlement call for the request, on either path; a request skipped for
\* its deadline is left as it was.
C4_NothingBeforeDeadline ==
    /\ last.kind \in {"exec", "settle"} =>
           ~(now_ts < last.request.timestamp + oracle_grace_seconds)
    /\ pc \in {"execute", "settle"} =>
           ~(now_ts < Current.timestamp + oracle_grace_seconds)
    /\ last.kind = "skip_not_ready" =>
           /\ now_ts < last.request.timestamp + oracle_grace_seconds
           /\ LastId \notin DOMAIN recently_settled
           /\ Get(failure_state, LastId) = last.entry

\* C4 witness: a prepared request on the AI path is skipped before its deadline.
C4_Witness ==
    /\ last.kind = "skip_not_ready"
    /\ price_override = <<>>
    /\ LastId \in DOMAIN prepared_requests

\* C5: a failure while handling one request (failed prepare, exhausted
\* execution retries, failed settlement call) does not abort the cycle: every
\* request that follows it is still handled, so when the cycle is over no entry
\* of another request is left unhandled.
C5_FailureDoesNotAbortCycle ==
    pc = "idle" =>
        \/ pending = <<>>
        \/ \A i \in DOMAIN pending : pending[i].request_id = last.request.request_id

SettleFailed == SettleCalled /\ ~last.ok

\* C6: a failed settlement call returns no transaction hash, ends the
\* settlement attempts of the cycle, leaves R out of the recently-settled set,
\* leaves R's failure state and evidence as they were, and R is not held back
\* (as recently settled, backed off or not due) the next time it is reported
\* pending and unsettled: it goes on to prepare, execute or settle whenever the
\* cycle has a resolver (an override price or a generator).
C6_FailedSettlementIsAnErrorAndRetried ==
    /\ SettleFailed =>
           /\ last.tx = <<>>
           /\ pc = "idle"
           /\ LastId \notin DOMAIN recently_settled
           /\ Get(failure_state, LastId) = last.failures_before
           /\ Get(evidence_store, LastId) = last.evidence_before
           /\ LastId \in retry_due
    /\ (last.kind \in {"skip_recent", "skip_backoff", "skip_not_ready"}) => ~last.due
    /\ (last.kind = "skip_unprepared" /\ last.due) => ~ai_generator
    /\ (pc = "loop" /\ pending # <<>> /\ ~Current.settled /\ CurrentId \in retry_due) =>
           /\ CurrentId \notin DOMAIN recently_settled
           /\ ~BackedOff(CurrentId, now_ts)
           /\ ReadyToSettle(Current, now_ts)

\* C6 witness: a request whose settlement call failed in an earlier cycle
\* reaches the sandbox again from its cached script.
C6_Witness ==
    /\ last.kind = "resolve"
    /\ last.due
    /\ pc = "execute"

\* C7: the evidenceHash argument of every settlement call is the hash of the
\* sorted-key serialization of the evidence record without a transaction hash,
\* and the persisted record is that record plus txHash: dropping txHash and
\* hashing again gives the submitted hash.
C7_EvidenceHashPinsPersistedRecord ==
    /\ pc = "settle" =>
           /\ "txHash" \notin DOMAIN s_evidence
           /\ s_hash = Keccak(JsonDumpsSorted(s_evidence))
    /\ (SettledOk /\ last.written) =>
           /\ LastId \in DOMAIN evidence_store
           /\ DOMAIN evidence_store[LastId] \ {"txHash"} # DOMAIN evidence_store[LastId]
           /\ evidence_store[LastId]["txHash"] = last.tx[1]
           /\ Keccak(JsonDumpsSorted(WithoutKey(evidence_store[LastId], "txHash")))
                  = last.hash

\* C7 witness: an AI-path evidence record was hashed, submitted and persisted.
C7_Witness ==
    /\ SettledOk
    /\ last.written
    /\ evidence_store[LastId]["decision"] \in {"YES", "NO"}
    /\ evidence_store[LastId]["settledAt"] = now_ts

\* C8: the evidence store changes only in the step in which a settlement call
\* returns successfully, only under the id of the settled request, and the
\* record written there (over any earlier one) carries the returned hash.
C8_EvidenceOnlyAfterSuccessfulSettlement ==
    [][evidence_store' # evidence_store =>
          /\ pc = "settle"
          /\ last'.kind = "settle"
          /\ last'.ok
          /\ last'.request = Current
          /\ CurrentId \in DOMAIN evidence_store'
          /\ evidence_store' = Put(evidence_store, CurrentId, evidence_store'[CurrentId])
          /\ "txHash" \in DOMAIN evidence_store'[CurrentId]
          /\ evidence_store'[CurrentId]["txHash"] = last'.tx[1]
          /\ evidence_store'[CurrentId]["requestId"] = CurrentId
          /\ results' = Append(results, [requestId |-> CurrentId,
                                         timestamp |-> Current.timestamp,
                                         price |-> s_price,
                                         txHash |-> last'.tx[1]])]_vars

\* C8 witness: the record of a second successful settlement replaced the
\* record of the first.
C8_Witness ==
    /\ SettledOk
    /\ last.written
    /\ last.prev_ok # <<>>
    /\ evidence_store[LastId]["settledAt"] = now_ts

\* C9: right after a successful settlement of R at block time now, R is in the
\* recently-settled set with timestamp now and has neither a failure-state
\* entry nor a cached script.
C9_BookkeepingAfterSettlement ==
    SettledOk =>
        /\ LastId \in DOMAIN recently_settled
        /\ recently_settled[LastId] = now_ts
        /\ LastId \notin DOMAIN failure_state
        /\ LastId \notin DOMAIN prepared_requests

\* C9 witness: a request with recorded failures was settled.
C9_Witness ==
    /\ SettledOk
    /\ last.entry # <<>>

InBackoffWindow(entry, now) ==
    /\ entry # <<>>
    /\ entry[1].count >= max_ai_failures
    /\ now - entry[1].last < ai_failure_backoff

\* C10: a request is skipped for backoff exactly when its failure count has
\* reached max_failures and now - last_failure < backoff_window; otherwise it
\* is handled, and no generator call, sandbox run or settlement call is made
\* for a request that was inside its backoff window when the cycle looked at it.
C10_BackoffBoundary ==
    /\ last.kind = "skip_backoff" => InBackoffWindow(last.entry, now_ts)
    /\ last.kind \in {"skip_unprepared", "prepare", "skip_not_ready", "override",
                      "resolve", "gen", "exec", "settle"} =>
           ~InBackoffWindow(last.entry, now_ts)

\* C10 witness: a request with max_failures failures is handled again in the
\* cycle in which now - last_failure equals the backoff window.
C10_Witness ==
    /\ last.kind \in {"prepare", "resolve", "override"}
    /\ last.entry # <<>>
    /\ last.entry[1].count = max_ai_failures
    /\ now_ts - last.entry[1].last = ai_failure_backoff

PipelineStep == last.kind \in {"gen", "exec"}
PipelineEndedInFailure == PipelineStep /\ last.fail
CountBefore(entry) == IF entry = <<>> THEN 0 ELSE entry[1].count
CountedOnce(id, entry) ==
    /\ id \in DOMAIN failure_state
    /\ failure_state[id].count =
           (IF CountBefore(entry) + 1 < max_ai_failures THEN CountBefore(entry) + 1
            ELSE max_ai_failures)
    /\ failure_state[id].last = now_ts
CountsInRange ==
    \A id \in DOMAIN failure_state :
        /\ failure_state[id].count >= 1
        /\ failure_state[id].count <= max_ai_failures

\* C11 (as claimed): every pipeline failure of R -- a prepare step called by the
\* scheduler that returns nothing, or a resolution that ends without a
\* decision -- raises R's failure count by one, capped at max_failures, and
\* sets its last-failure time to the block time of the cycle; every tracked
\* count lies between 1 and max_failures.
C11_EveryPipelineFailureCounts ==
    /\ PipelineEndedInFailure => CountedOnce(LastId, last.before)
    /\ last.kind = "skip_unprepared" => CountedOnce(LastId, last.entry)
    /\ CountsInRange

\* C11 (amended): every prepare step that reached the generator and failed, and
\* every resolution that ends without a decision, raises R's failure count by
\* one, capped at max_failures, and sets its last-failure time to the block
\* time of the cycle; a prepare step that returns because no generator is
\* configured records nothing; every tracked count lies between 1 and
\* max_failures.
C11_GeneratorBackedFailuresCount ==
    /\ PipelineEndedInFailure => CountedOnce(LastId, last.before)
    /\ last.kind = "skip_unprepared" => Get(failure_state, LastId) = last.entry
    /\ CountsInRange

\* C11 witness: a request already at max_failures failed again after its
\* backoff window, and its count stayed at the maximum.
C11_Witness ==
    /\ PipelineEndedInFailure
    /\ CountBefore(last.before) = max_ai_failures
    /\ failure_state[LastId].last = now_ts
    /\ now_ts > 0

\* C12: right after a successful prepare step for R, called from the scheduler
\* loop or from the execution-retry loop, the failure tracker has no entry for R.
C12_NoFailureEntryAfterPrepare ==
    (last.kind = "gen" /\ last.outcome = "prepared") =>
        /\ LastId \in DOMAIN prepared_requests
        /\ LastId \notin DOMAIN failure_state

\* C12 witness: a re-prepare inside the execution-retry loop succeeded in a
\* cycle that found R with recorded failures.
C12_Witness ==
    /\ last.kind = "gen"
    /\ last.outcome = "prepared"
    /\ last.caller = "resolve"
    /\ last.entry # <<>>

\* C13: when the pipeline of R has ended in failure in max_failures consecutive
\* cycles that handled R, whether in prepare or in execution after a successful
\* prepare, R's failure count is max_failures and R is inside its backoff window.
C13_ExhaustedBudgetParksRequest ==
    (PipelineEndedInFailure /\ LastId \in DOMAIN streak
        /\ streak[LastId] = max_ai_failures) =>
        /\ LastId \in DOMAIN failure_state
        /\ failure_state[LastId].count = max_ai_failures
        /\ BackedOff(LastId, now_ts)

EarlyIsCached(id) ==
    /\ id \in DOMAIN prepared_requests
    /\ prepared_requests[id].script = early_script[id].script

\* C14 (as claimed): once a script was prepared for R before R's deadline, the
\* first sandbox run for R executes that script, and the generator is not called
\* for R between that prepare and that run.
C14_EarlyScriptRunsAtDeadline ==
    /\ last.kind = "gen" => last.early = <<>>
    /\ (last.kind = "exec" /\ last.early # <<>>) => last.script = last.early[1].script

\* C14 (amended): a script prepared for R before R's deadline stays cached until
\* R is reported settled or a settlement of R succeeds; unless one of these
\* dropped it, the first sandbox run for R executes it, and the generator is
\* not called for R between that prepare and that run.
C14_EarlyScriptRunsUnlessDropped ==
    /\ \A id \in DOMAIN early_script : ~early_script[id].dropped => EarlyIsCached(id)
    /\ (last.kind = "gen" /\ last.early # <<>>) => last.early[1].dropped
    /\ (last.kind = "exec" /\ last.early # <<>>) =>
           /\ ~last.early[1].dropped
           /\ last.script = last.early[1].script
           /\ last.attempt = 1

\* C14 witness: the script cached before the deadline is run in a later cycle,
\* straight from the cache.
C14_Witness ==
    /\ last.kind = "exec"
    /\ last.early # <<>>
    /\ last.script = last.early[1].script
    /\ ~(now_ts < last.request.timestamp + oracle_grace_seconds)
    /\ oracle_grace_seconds > 0

\* C15 (as claimed): a failed sandbox run removes R's cache entry, and every
\* later run for R, in the same cycle or a later one, executes a script from a
\* fresh generator call whose context was the failed script and its error.
C15_RerunGetsFailedScriptAsContext ==
    /\ (last.kind = "exec" /\ ~last.success) => LastId \notin DOMAIN prepared_requests
    /\ (pc = "execute" /\ CurrentId \in DOMAIN failed_exec) =>
           /\ last.kind = "gen"
           /\ last.outcome = "prepared"
           /\ last.context = failed_exec[CurrentId]

\* C15 (amended): a failed sandbox run removes R's cache entry, and every later
\* run for R executes a script from a generator call made after the failure;
\* the first generator call of the re-prepare in the same pass gets the failed
\* script and its error as context, a later call of that re-prepare gets the
\* script it rejected and its issues, and a prepare of a later cycle gets no
\* failure context.
C15_RerunComesFromFreshGeneratorCall ==
    /\ (last.kind = "exec" /\ ~last.success) => LastId \notin DOMAIN prepared_requests
    /\ (pc = "execute" /\ CurrentId \in DOMAIN failed_exec) =>
           /\ last.kind = "gen"
           /\ last.outcome = "prepared"
           /\ (last.caller = "resolve" /\ last.attempt = 1) =>
                  last.context = failed_exec[CurrentId]
    /\ (pc = "generate" /\ caller = "resolve" /\ p_attempts = 0) =>
           /\ CurrentId \in DOMAIN failed_exec
           /\ p_context = failed_exec[CurrentId]
    /\ (pc = "generate" /\ caller = "loop" /\ p_attempts = 0) => p_context = NoContext

\* C15 witness: in a cycle after the one whose runs failed, R is about to run a
\* script that the generator produced without any failure context.
C15_Witness ==
    /\ pc = "execute"
    /\ CurrentId \in DOMAIN failed_exec
    /\ last.kind = "gen"
    /\ last.caller = "loop"
    /\ last.context = NoContext

RunError(run) ==
    IF run.stderr # "" THEN run.stderr
    ELSE IF run.stdout # "" THEN run.stdout ELSE "Execution failure"

ExhaustedRuns ==
    (last.kind = "exec" /\ last.fail) =>
        /\ ~last.success
        /\ last.error = RunError(last.run)
        /\ CountedOnce(LastId, last.before)
        /\ pc = "loop"

IssuesOf(code) == JoinIssues(AnalyzeScript(code).issues)

\* C17: one prepare step calls the generator at most max_prepare_attempts times;
\* a call after an analysis failure gets the rejected script and its issues as
\* context; when every script had a hard issue the step fails with the issues
\* of the last analyzed script and leaves no cache entry.
C17_PrepareAttemptsBounded ==
    /\ pc = "generate" => p_attempts < max_ai_prepare_attempts
    /\ last.kind = "gen" => last.attempt <= max_ai_prepare_attempts
    /\ (last.kind = "gen" /\ last.outcome = "rejected" /\ ~last.fail) =>
           /\ pc = "generate"
           /\ p_attempts = last.attempt
           /\ p_context = [previous_code |-> last.code, error |-> IssuesOf(last.code)]
    /\ (last.kind = "gen" /\ last.outcome = "rejected" /\ last.fail) =>
           /\ last.attempt = max_ai_prepare_attempts
           /\ last.error = IssuesOf(last.code)
           /\ last.error # ""
           /\ LastId \notin DOMAIN prepared_requests
           /\ pc = "loop"

\* C17 witness: the third script of a re-prepare was rejected and the step
\* failed.
C17_Witness ==
    /\ last.kind = "gen"
    /\ last.outcome = "rejected"
    /\ last.fail
    /\ last.attempt = max_ai_prepare_attempts
    /\ last.caller = "resolve"

GeneratorRaised == last.kind = "gen" /\ last.outcome = "raised"

RaiseEndsPrepare ==
    GeneratorRaised =>
        /\ last.fail
        /\ last.error \in GeneratorErrors
        /\ CountedOnce(LastId, last.before)
        /\ LastId \notin DOMAIN prepared_requests
        /\ pc = "loop"

ReducedEvidenceKeys ==
    {"requestId", "identifier", "timestamp", "ancillary", "decision", "reason",
     "price", "settledAt"}

\* C19: in a cycle run with a price override the generator is not called and the
\* sandbox is not run; every settlement call of the cycle carries the override
\* price and the hash of the reduced evidence record with decision "OVERRIDE"
\* and that price.
C19_OverrideBypassesPipeline ==
    price_override # <<>> =>
        /\ pc \in {"idle", "loop", "settle"}
        /\ last.kind \notin {"prepare", "resolve", "gen", "exec", "skip_unprepared"}
        /\ pc = "settle" =>
               /\ s_price = price_override[1]
               /\ DOMAIN s_evidence = ReducedEvidenceKeys
               /\ s_evidence["decision"] = "OVERRIDE"
               /\ s_evidence["price"] = price_override[1]
               /\ s_evidence["requestId"] = CurrentId
               /\ s_hash = Keccak(JsonDumpsSorted(s_evidence))
        /\ SettleCalled =>
               /\ last.price = price_override[1]
               /\ last.hash # NoHash

\* C19 witness: an override cycle settles a request whose script was cached.
C19_Witness ==
    /\ pc = "settle"
    /\ price_override # <<>>
    /\ CurrentId \in DOMAIN prepared_requests

\* C20: on the AI path the price of a settlement call is 0 or 1, 1 exactly for
\* decision YES and 0 exactly for decision NO, and the price and decision of
\* the evidence record agree with the price passed to the call.
C20_PriceFollowsDecision ==
    (pc = "settle" /\ price_override = <<>>) =>
        /\ s_price \in {0, 1}
        /\ s_evidence["decision"] \in {"YES", "NO"}
        /\ s_price = 1 <=> s_evidence["decision"] = "YES"
        /\ s_price = 0 <=> s_evidence["decision"] = "NO"
        /\ s_evidence["price"] = s_price
        /\ last.kind = "exec"
        /\ last.run.decision = s_evidence["decision"]

\* C20 witness: a script that printed "yes" in lower case is settled at price 1.
C20_Witness ==
    /\ pc = "settle"
    /\ price_override = <<>>
    /\ s_price = 1
    /\ last.run.stdout = LineYes

\* the files a failed run leaves when every write goes through: the script, and
\* each output stream that is not empty
DebugFilesOf(script, run) ==
    [f \in {"py"} \cup (IF run.stderr # "" THEN {"stderr"} ELSE {})
                  \cup (IF run.stdout # "" THEN {"stdout"} ELSE {}) |->
        IF f = "py" THEN script ELSE IF f = "stderr" THEN run.stderr ELSE run.stdout]

FailedRun == last.kind = "exec" /\ ~last.success

\* C29: a failed sandbox run leaves its script and its output (each stream that
\* is not empty) in the debug directory under the request id before the failure
\* is returned; whether or not the write goes through, the step returns the error
\* (stderr, else stdout) with no resolution and the retry loop goes on: a new
\* generator call, or the end of the pass once the runs are used up.
C29_FailedRunLeavesDebugArtifacts ==
    FailedRun =>
        /\ last.completed = 3 =>
              /\ LastId \in DOMAIN debug_dir
              /\ debug_dir[LastId] = DebugFilesOf(last.script, last.run)
        /\ last.returned = (IF last.run.stderr # "" THEN last.run.stderr ELSE last.run.stdout)
        /\ IF last.fail THEN pc = "loop" ELSE pc = "generate"

\* C29 witness: a run that crashed left its script and its stderr, and no stdout
\* file, and the generator is called again.
C29_Witness ==
    /\ FailedRun
    /\ last.completed = 3
    /\ pc = "generate"
    /\ DOMAIN debug_dir[LastId] = {"py", "stderr"}
    /\ debug_dir[LastId]["stderr"] = "Traceback"

SandboxReturned == sandbox.pc = "returned"

\* the lines of an output that parse as JSON once stripped, by position
JsonLines(stdout) == {i \in 1..Len(stdout) : ParseJson(StripLine(stdout[i])) # <<>>}
LastJsonLine(stdout) == CHOOSE i \in JsonLines(stdout) : \A j \in JsonLines(stdout) : j <= i

\* the output ends, JSON-wise, in an object whose decision reads YES or NO
DecisiveOutput(stdout) ==
    /\ JsonLines(stdout) # {}
    /\ LET value == ParseJson(StripLine(stdout[LastJsonLine(stdout)]))[1]
       IN /\ value.type = "dict"
          /\ "decision" \in DOMAIN value.members
          /\ value.members["decision"] \in {"yes", "Yes", "YES", "no", "No", "NO", " No "}
DecisionOf(stdout) ==
    LET text == ParseJson(StripLine(stdout[LastJsonLine(stdout)]))[1].members["decision"]
    IN IF text \in {"yes", "Yes", "YES"} THEN "YES" ELSE "NO"

\* C26: a sandbox run succeeds exactly when the process ended with exit code 0
\* within the timeout and the payload of its output is an object whose decision,
\* trimmed and upper-cased, is YES or NO; then the result carries that decision;
\* every other run (exit code, timeout, failure to start, no JSON line, a payload
\* that is no object or has no such decision) has success false and decision
\* UNKNOWN.
C26_SuccessIffCleanExitAndDecision ==
    SandboxReturned =>
        LET proc == sandbox.proc
            result == sandbox.result
            good == proc.raised = "" /\ proc.returncode = 0 /\ DecisiveOutput(proc.stdout)
        IN /\ result.success <=> good
           /\ good => result.decision = DecisionOf(proc.stdout)
           /\ ~good => result.decision = "UNKNOWN"

\* C26 witness: a run whose decision needs trimming and upper-casing succeeds
\* with decision NO.
C26_Witness ==
    /\ SandboxReturned
    /\ sandbox.proc.stdout = <<LineLog, LinePadded>>
    /\ sandbox.result.success
    /\ sandbox.result.decision = "NO"

\* C27: the payload is the parse of the last non-blank line of the output that
\* parses as JSON, and none when no line does; no line before it counts, so an
\* output whose last JSON line has no valid decision fails whatever comes earlier.
C27_PayloadIsLastJsonLine ==
    SandboxReturned =>
        LET stdout == sandbox.proc.stdout
        IN /\ ExtractJsonPayload(stdout) =
                 (IF JsonLines(stdout) = {} THEN <<>>
                  ELSE ParseJson(StripLine(stdout[LastJsonLine(stdout)])))
           /\ (JsonLines(stdout) # {} /\ ~DecisiveOutput(stdout)) => ~sandbox.result.success

\* C27 witness: a valid decision followed by a JSON line without one: the run
\* fails.
C27_Witness ==
    /\ SandboxReturned
    /\ sandbox.proc.returncode = 0
    /\ sandbox.proc.stdout = <<LineYes, LinePrice, LineSpaces>>
    /\ ~sandbox.result.success

Analysed == last.kind = "gen" /\ last.outcome \in {"rejected", "prepared"}

\* C30: the label of a script follows from its analysis alone: LOW when the
\* analysis has a hard issue, HIGH when it succeeded without a warning, MEDIUM
\* when it succeeded with one warning or more; and every script in the cache
\* carries its own label, HIGH or MEDIUM.
C30_LabelFollowsAnalysis ==
    /\ Analysed =>
          /\ last.analysis.issues # <<>> => last.confidence = "LOW"
          /\ (last.analysis.success /\ Len(last.analysis.warnings) = 0)
                => last.confidence = "HIGH"
          /\ (last.analysis.success /\ Len(last.analysis.warnings) >= 1)
                => last.confidence = "MEDIUM"
          /\ last.analysis.success <=> last.analysis.issues = <<>>
    /\ \A id \in DOMAIN prepared_requests :
          LET cached == prepared_requests[id]
          IN /\ cached.confidence \in {"HIGH", "MEDIUM"}
             /\ cached.confidence = "HIGH" <=> cached.analysis.warnings = <<>>
             /\ cached.analysis.issues = <<>>

\* C30 witness: a script with three warnings and no issue is cached as MEDIUM.
C30_Witness ==
    /\ Analysed
    /\ last.outcome = "prepared"
    /\ Len(last.analysis.warnings) = 3
    /\ LastId \in DOMAIN prepared_requests
    /\ prepared_requests[LastId].confidence = "MEDIUM"

CallInFlight == pc \in {"generate", "execute", "settle"}
CallStep == last.kind \in {"gen", "exec", "settle"}

\* C25: within a cycle the requests are handled one at a time in the order of
\* the pending list: every generator, sandbox and settlement call is made for
\* the head of what is left of the list; while a call for it is in flight the
\* list stays as it is, and the head is dropped only when its pass is over; each
\* settlement is appended to the returned list when its request is dropped, so
\* the returned list follows the order of the pending list.
C25_OneRequestAtATimeInOrder ==
    [][/\ CallStep' =>
             /\ pending # <<>>
             /\ last'.request = Head(pending)
       /\ (CallInFlight /\ CallInFlight') => pending' = pending
       /\ (pc # "idle" /\ pending' # pending) =>
             /\ pending' = Tail(pending)
             /\ pc' \in {"loop", "idle"}
       /\ (pc # "idle" /\ results' # results) =>
             /\ Len(results') = Len(results) + 1
             /\ SubSeq(results', 1, Len(results)) = results
             /\ results'[Len(results')].requestId = Head(pending).request_id
             /\ pending' = Tail(pending)
             /\ last'.kind = "settle"
      ]_vars

\* C25 witness: a cycle that was given r2 before r1 has settled both, r2 first.
C25_Witness ==
    /\ Len(results) = 2
    /\ results[1].requestId = "r2"
    /\ results[2].requestId = "r1"
    /\ last.kind = "settle"
    /\ last.request.request_id = "r1"

CycleHoldsNonce == pc = "settle" /\ s_nonce # <<>>
ManualHoldsNonce == manual.pc = "work" /\ manual.nonce # <<>>

\* C22: with the manual settlement path of the server at work next to a cycle
\* on the same account, the settlement calls are serialized: never are two of
\* them between the reading of the account's nonce and the sending of the
\* transaction, so no two transactions are built with the same nonce.
C22_SettlementCallsSerialized == ~(CycleHoldsNonce /\ ManualHoldsNonce)

\* ------------------------------------------------------ the event loop
\* Where each step of a cycle runs.  The generator call is awaited through
\* asyncio.to_thread (ai_generator.py lines 238 and 241) and so is the settlement
\* call (line 164); _execute_prepared_script calls _execute_generated_python
\* directly (line 429), whose subprocess.run (lines 565-570) waits for the child on
\* the thread of the event loop.  The code between two awaits runs on the loop too.
RunsOn(step) ==
    CASE step = "idle" -> "nothing"
      [] step \in {"generate", "settle"} -> "worker thread"
      [] OTHER -> "event loop"

EventLoopFree == RunsOn(pc) # "event loop"

\* local_agent_server.py lines 231-234: any other coroutine of the server, such
\* as the handler of GET /, gets a turn on the loop
OtherTaskRuns ==
    /\ EventLoopFree
    /\ served' = 1 - served
    /\ UNCHANGED <<scheduler, debug_dir, tmp_files, sandbox, manual, cancel_requested, parked,
                   unit, watcher>>

NextLoop ==
    \/ Next
    \/ OtherTaskRuns

SpecLoop == InitServer /\ [][NextLoop]_vars

\* C21: the blocking operations of a cycle (the generator call, the sandbox run
\* and the settlement call) run off the event loop, so that another task of the
\* loop can take its turn while one of them is in flight.
C21_BlockingCallsRunOffLoop == CallInFlight => ENABLED OtherTaskRuns

\* -------------------------------------------------------- cancellation
\* The task running a cycle is cancelled from outside (Task.cancel() by the
\* shutdown of the process).  A task that is running, or blocked in the
\* subprocess.run of lines 565-570, is only marked; one that is waiting at an
\* await is woken with CancelledError.
CancelRequested ==
    /\ pc # "idle"
    /\ ~cancel_requested
    /\ cancel_requested' = TRUE
    /\ UNCHANGED <<scheduler, debug_dir, tmp_files, sandbox, manual, parked, elsewhere>>

\* CancelledError is raised at the await the task is waiting at (lines 164 and
\* ai_generator.py 238, 241), or at the next one it reaches (at the latest the
\* sleep of line 105).  It is not an
\* Exception, so neither _prepare_request (line 300) nor _oracle_watch_loop
\* (line 103) catches it: the cycle ends where it is.
CancelDelivered ==
    /\ cancel_requested
    /\ EventLoopFree
    /\ cancel_requested' = FALSE
    /\ pc' = "idle"
    /\ pending' = <<>>
    /\ ResetLocals
    /\ last' = [kind |-> "cancelled"]
    /\ cycle_log' = EmptyDict
    /\ UNCHANGED <<chain_now, config, stores, now_ts, price_override, results, history,
                   streak, early_script, failed_exec, debug_dir, tmp_files, sandbox,
                   manual, parked, elsewhere>>

NextCancel ==
    \/ Next
    \/ CancelRequested
    \/ CancelDelivered

SpecCancel == InitServer /\ [][NextCancel]_vars

\* C23: once the task of the cycle is cancelled while a sandbox run is in
\* flight, the run is terminated, that is, it yields no result to the cycle, and
\* no evidence record is written for it.
C23_CancelTerminatesSandboxRun ==
    [][/\ (cancel_requested /\ pc = "execute") => last'.kind # "exec"
       /\ cancel_requested => evidence_store' = evidence_store]_vars

\* ------------------------------------------------ two cycles on one agent
\* run_oracle_cycle (lines 94-96) starts _process_pending_requests whenever it is
\* called; only start_oracle_worker looks at _oracle_task (line 89), and that
\* keeps a second watch loop from starting, not a cycle.  A second activation has
\* its own frame (the locals of lines 107-180 and of the coroutines it awaits) and
\* shares the stores of the agent with the first.

\* the frame of the activation that is running on the event loop, with what its
\* latest step did
Frame ==
    [pc |-> pc, pending |-> pending, now_ts |-> now_ts, price_override |-> price_override,
     results |-> results, caller |-> caller, p_attempts |-> p_attempts,
     p_context |-> p_context, record_failure |-> record_failure,
     r_attempts |-> r_attempts, r_prepared |-> r_prepared, s_price |-> s_price,
     s_evidence |-> s_evidence, s_hash |-> s_hash, s_nonce |-> s_nonce,
     last |-> last]

Resume(frame) ==
    /\ pc' = frame.pc
    /\ pending' = frame.pending
    /\ now_ts' = frame.now_ts
    /\ price_override' = frame.price_override
    /\ results' = frame.results
    /\ caller' = frame.caller
    /\ p_attempts' = frame.p_attempts
    /\ p_context' = frame.p_context
    /\ record_failure' = frame.record_failure
    /\ r_attempts' = frame.r_attempts
    /\ r_prepared' = frame.r_prepared
    /\ s_price' = frame.s_price
    /\ s_evidence' = frame.s_evidence
    /\ s_hash' = frame.s_hash
    /\ s_nonce' = frame.s_nonce
    /\ last' = frame.last

\* the activation that is running waits at an await of its cycle
Suspended == pc # "idle" /\ EventLoopFree

\* lines 94-96: run_oracle_cycle is called while the cycle of another caller (the
\* watch loop, or an earlier run_oracle_cycle) is suspended
SecondCycleStarts ==
    /\ oracle_client
    /\ ~cancel_requested
    /\ parked = <<>>
    /\ Suspended
    /\ parked' = <<Frame>>
    /\ pc' = "idle"
    /\ pending' = <<>>
    /\ results' = <<>>
    /\ ResetLocals
    /\ UNCHANGED <<chain_now, config, stores, now_ts, price_override, last, history, trail,
                   debug_dir, tmp_files, sandbox, manual, cancel_requested, elsewhere>>

\* the event loop goes on with the other activation once the one that is running
\* waits at an await, or has returned
Switch ==
    /\ ~cancel_requested
    /\ parked # <<>>
    /\ EventLoopFree
    /\ Resume(parked[1])
    /\ parked' = IF Suspended THEN <<Frame>> ELSE <<>>
    /\ UNCHANGED <<chain_now, config, stores, history, trail,
                   debug_dir, tmp_files, sandbox, manual, cancel_requested, elsewhere>>

NextTwo ==
    \/ Next
    \/ SettleBuilds
    \/ SecondCycleStarts
    \/ Switch

SpecTwo == InitServer /\ [][NextTwo]_vars

\* C24: the stores of an agent are touched by one cycle at a time: no request
\* is being prepared, executed or settled by one cycle while another cycle on the
\* same agent is in the middle of preparing or settling it.
C24_NoRequestHandledByTwoCycles ==
    (parked # <<>> /\ CallInFlight) => Head(parked[1].pending).request_id # CurrentId

\* ------------------------------------------- the pure helpers on their own
\* Calls of the helpers of the agent that read no state of it, on inputs drawn
\* from bounded sets.
InitUnit == InitIn("unit") /\ ~oracle_client /\ ~ai_generator

\* every combination of the facts _analyze_script reads off a script; a text
\* that does not parse has no tree, and only a function that is there can return
ImportChoices == SUBSET {"requests", "json", "os"}
AnalyzerInputs ==
    {code \in [src : {"generated"}, parses : {TRUE}, has_resolve : BOOLEAN,
               resolve_returns : BOOLEAN, has_main_guard : BOOLEAN,
               imports : ImportChoices] : code.resolve_returns => code.has_resolve}
    \cup {ScriptSyntaxError}

\* lines 346-408
AnalyzeCall(code) ==
    /\ world = "unit"
    /\ unit' = [fn |-> "analyze_script", code |-> code, result |-> AnalyzeScript(code)]
    /\ UNCHANGED <<scheduler, debug_dir, tmp_files, sandbox, manual, cancel_requested,
                   parked, served, watcher>>

\* ---- _sanitize_ancillary and _restore_placeholders (lines 479-502)
\* A text is the sequence of its characters.
MinHexLen == 32
HexDigits ==
    {"0", "1", "2", "3", "4", "5", "6", "7", "8", "9",
     "a", "b", "c", "d", "e", "f", "A", "B", "C", "D", "E", "F"}

Repeat(char, n) == [i \in 1..n |-> char]
DigitChars == <<"0", "1", "2", "3", "4", "5", "6", "7", "8", "9">>
RECURSIVE Decimal(_)
Decimal(n) == IF n < 10 THEN <<DigitChars[n + 1]>>
              ELSE Decimal(n \div 10) \o <<DigitChars[(n % 10) + 1]>>

\* f"PLACEHOLDER_HEX_{len(placeholders) + 1}"
PlaceholderConst(k) ==
    <<"P", "L", "A", "C", "E", "H", "O", "L", "D", "E", "R", "_", "H", "E", "X", "_">>
    \o Decimal(k)

\* faulty variant: every literal is given the first token
PlaceholderToken_First(k) == <<"_", "_">> \o PlaceholderConst(1) \o <<"_", "_">>

\* f"__PLACEHOLDER_HEX_{len(placeholders) + 1}__"
PlaceholderToken(k) == <<"_", "_">> \o PlaceholderConst(k) \o <<"_", "_">>

Least(positions) == CHOOSE m \in positions : \A n \in positions : m <= n

\* the number of hexadecimal characters of text from position i on
HexRun(text, i) ==
    Least({j \in i..(Len(text) + 1) : j > Len(text) \/ text[j] \notin HexDigits}) - i

\* length of the match of 0x[0-9a-fA-F]{32,} at position i, 0 if there is none;
\* the quantifier is greedy
MatchAt(text, i) ==
    IF i + 1 <= Len(text) /\ text[i] = "0" /\ text[i + 1] = "x"
          /\ HexRun(text, i + 2) >= MinHexLen
    THEN 2 + HexRun(text, i + 2)
    ELSE 0

\* the description entry: the abbreviated literal and its length
Abbreviated(literal) ==
    IF Len(literal) > 20
    THEN SubSeq(literal, 1, 10) \o <<"...">> \o SubSeq(literal, Len(literal) - 5, Len(literal))
    ELSE literal
PlaceholderMeta(k, literal) ==
    [token |-> PlaceholderToken(k), value |-> literal,
     description |-> [abbreviated |-> Abbreviated(literal), length |-> Len(literal)],
     const |-> PlaceholderConst(k)]

\* re.sub with the replacement callback: the matches from the left, each sought
\* after the end of the one before; placeholders is the dict in insertion order
RECURSIVE SubFrom(_, _, _, _)
SubFrom(text, i, sanitized, placeholders) ==
    LET starts == {j \in i..Len(text) : MatchAt(text, j) > 0}
    IN IF starts = {}
       THEN [sanitized |-> sanitized \o SubSeq(text, i, Len(text)),
             placeholders |-> placeholders]
       ELSE LET at == Least(starts)
                n == MatchAt(text, at)
                k == Len(placeholders) + 1
            IN SubFrom(text, at + n,
                       sanitized \o SubSeq(text, i, at - 1) \o PlaceholderToken(k),
                       Append(placeholders,
                              PlaceholderMeta(k, SubSeq(text, at, at + n - 1))))

\* _sanitize_ancillary
SanitizeAncillary(ancillary_text) == SubFrom(ancillary_text, 1, <<>>, <<>>)

OccursAt(text, i, old) ==
    i + Len(old) - 1 <= Len(text) /\ SubSeq(text, i, i + Len(old) - 1) = old

Occurrences(text, i, old) == {j \in i..Len(text) : OccursAt(text, j, old)}

\* faulty variant: only the first occurrence is replaced
ReplaceFrom_Once(text, i, old, new, out) ==
    IF Occurrences(text, i, old) = {} THEN out \o SubSeq(text, i, Len(text))
    ELSE LET at == Least(Occurrences(text, i, old))
         IN out \o SubSeq(text, i, at - 1) \o new \o SubSeq(text, at + Len(old), Len(text))

\* str.replace: the occurrences of old from the left, none overlapping another
RECURSIVE ReplaceFrom(_, _, _, _, _)
ReplaceFrom(text, i, old, new, out) ==
    IF Occurrences(text, i, old) = {} THEN out \o SubSeq(text, i, Len(text))
    ELSE LET at == Least(Occurrences(text, i, old))
         IN ReplaceFrom(text, at + Len(old), old, new, out \o SubSeq(text, i, at - 1) \o new)

\* _restore_placeholders: one replace per entry, in the order of the dict
RECURSIVE RestoreFrom(_, _, _)
RestoreFrom(restored, placeholders, j) ==
    IF j > Len(placeholders) THEN restored
    ELSE RestoreFrom(ReplaceFrom(restored, 1, placeholders[j].token,
                                 placeholders[j].value, <<>>),
                     placeholders, j + 1)
RestorePlaceholders(code, placeholders) == RestoreFrom(code, placeholders, 1)

\* the texts the helpers are called on: up to MaxPieces pieces in a row
MaxPieces == 4
Word == <<"I", "s", " ">>
ZeroX == <<"0", "x">>
Hex31 == Repeat("a", MinHexLen - 1)
HexF == <<"f">>
LongHex == ZeroX \o Repeat("b", MinHexLen)
AncillaryPieces == {Word, ZeroX, Hex31, HexF, LongHex, PlaceholderToken(1)}

RECURSIVE Concat(_)
Concat(pieces) == IF pieces = <<>> THEN <<>> ELSE Head(pieces) \o Concat(Tail(pieces))
TextsOf(pieces) == {Concat(ps) : ps \in UNION {[1..n -> pieces] : n \in 0..MaxPieces}}

\* lines 275 and 311 of _prepare_request, on the text itself: the text is
\* sanitized and the result restored with the mapping of that call
SanitizeCall(text) ==
    LET out == SanitizeAncillary(text)
    IN /\ world = "unit"
       /\ unit' = [fn |-> "sanitize_ancillary", text |-> text,
                   sanitized |-> out.sanitized, placeholders |-> out.placeholders,
                   restored |-> RestorePlaceholders(out.sanitized, out.placeholders)]
       /\ UNCHANGED <<scheduler, debug_dir, tmp_files, sandbox, manual, cancel_requested,
                      parked, served, watcher>>

\* a generated script that quotes the tokens it was given, and the mappings it
\* may be restored with
CodePieces == {Word, <<"_">>, PlaceholderToken(1), PlaceholderToken(2), LongHex}
Mappings ==
    {SanitizeAncillary(text).placeholders :
        text \in {<<>>, LongHex, LongHex \o Word \o ZeroX \o Hex31 \o HexF}}

\* line 311
RestoreCall(code, placeholders) ==
    /\ world = "unit"
    /\ unit' = [fn |-> "restore_placeholders", code |-> code, placeholders |-> placeholders,
                restored |-> RestorePlaceholders(code, placeholders)]
    /\ UNCHANGED <<scheduler, debug_dir, tmp_files, sandbox, manual, cancel_requested,
                   parked, served, watcher>>

\* ---- fetch_request (oracle_client.py lines 51-75)
\* The answer of a contract accessor: the entries of the request struct, told
\* apart by their position and by the accessor they came from; some deployments
\* append entries to the nine the client reads.
MaxExtra == 2
RequestFields == 9
Answer(accessor, extra) == [i \in 1..(RequestFields + extra) |-> <<accessor, i>>]

\* what a call of an accessor does: it answers, or it raises
Answers(accessor) == {[raised |-> "", raw |-> Answer(accessor, extra)] : extra \in 0..MaxExtra}
CaughtErrors == {"BadFunctionCallOutput", "ContractLogicError"}
CallOutcomes(accessor) ==
    Answers(accessor)
    \cup {[raised |-> e, raw |-> <<>>] : e \in CaughtErrors \cup {"ConnectionError"}}

\* faulty variant: the trailing entries are kept instead of the leading ones
Trim_Tail(raw) ==
    IF Len(raw) >= 10 THEN SubSeq(raw, Len(raw) - RequestFields + 1, Len(raw)) ELSE raw

\* lines 61-62
Trim(raw) == IF Len(raw) >= 10 THEN SubSeq(raw, 1, RequestFields) ELSE raw

\* lines 63-74
BuildRequest(request_id, raw) ==
    [request_id |-> request_id, requester |-> raw[1], reward_token |-> raw[2],
     reward |-> raw[3], timestamp |-> raw[4], identifier |-> raw[5],
     ancillary_data |-> raw[6], settled |-> raw[7], settled_price |-> raw[8],
     evidence_hash |-> raw[9]]

\* lines 51-75: the request, or the exception that leaves the method
FetchRequest(request_id, has_get_request, get_request, requests) ==
    LET answer ==
            IF has_get_request /\ get_request.raised \notin CaughtErrors
            THEN get_request
            ELSE requests
    IN IF answer.raised # "" THEN [raised |-> answer.raised]
       ELSE [raised |-> "", request |-> BuildRequest(request_id, Trim(answer.raw))]

FetchCall(request_id, has_get_request, get_request, requests) ==
    /\ world = "unit"
    /\ unit' = [fn |-> "fetch_request", request_id |-> request_id,
                has_get_request |-> has_get_request, get_request |-> get_request,
                requests |-> requests,
                result |-> FetchRequest(request_id, has_get_request, get_request, requests)]
    /\ UNCHANGED <<scheduler, debug_dir, tmp_files, sandbox, manual, cancel_requested,
                   parked, served, watcher>>

\* each call is taken from the agent as constructed
Uncalled == unit.fn = "none"

NextUnit ==
    \/ /\ Uncalled
       /\ \E code \in AnalyzerInputs : AnalyzeCall(code)
    \/ /\ Uncalled
       /\ \E text \in TextsOf(AncillaryPieces) : SanitizeCall(text)
    \/ /\ Uncalled
       /\ \E code \in TextsOf(CodePieces), placeholders \in Mappings :
              RestoreCall(code, placeholders)
    \/ /\ Uncalled
       /\ \E request_id \in Ids, has_get_request \in BOOLEAN,
             get_request \in CallOutcomes("getRequest"),
             requests \in CallOutcomes("requests") :
              FetchCall(request_id, has_get_request, get_request, requests)

SpecUnit == InitUnit /\ [][NextUnit]_vars

\* ---- the pure helpers
UnitAnalysed == unit.fn = "analyze_script"

\* C31: _analyze_script reports success exactly when the script parses, defines
\* resolve_oracle at top level and that function has a return statement, which is
\* exactly when it lists no issue; warnings never decide it; a missing entry
\* function gives the issue that names it whatever the warnings; a parse failure
\* gives one issue and no warning.
C31_SuccessIffNoHardIssue ==
    UnitAnalysed =>
        LET code == unit.code
            analysis == unit.result
        IN /\ analysis.success
                  <=> (code.parses /\ code.has_resolve /\ code.resolve_returns)
           /\ analysis.success <=> analysis.issues = <<>>
           /\ (code.parses /\ ~code.has_resolve)
                  => analysis.issues = <<"resolve_oracle() function not defined">>
           /\ ~code.parses => Len(analysis.issues) = 1 /\ analysis.warnings = <<>>

C31_Witness ==
    /\ UnitAnalysed
    /\ unit.code.parses
    /\ ~unit.code.has_resolve
    /\ Len(unit.result.warnings) = 3
    /\ ~unit.result.success

UnitSanitized == unit.fn = "sanitize_ancillary"

\* C32: restoring the sanitized text with the mapping of the same call gives
\* the text back.
C32_RestoreUndoesSanitize == UnitSanitized => unit.restored = unit.text

\* 0x and at least 32 hexadecimal characters start at position i of text
LongHexAt(text, i) ==
    /\ i + 1 + MinHexLen <= Len(text)
    /\ text[i] = "0"
    /\ text[i + 1] = "x"
    /\ \A j \in (i + 2)..(i + 1 + MinHexLen) : text[j] \in HexDigits

\* the literals of a text from the left: where each starts and how long it is
RECURSIVE LiteralsFrom(_, _)
LiteralsFrom(text, i) ==
    LET starts == {j \in i..Len(text) : LongHexAt(text, j)}
    IN IF starts = {} THEN <<>>
       ELSE LET at == Least(starts)
                n == 2 + HexRun(text, at + 2)
            IN <<[at |-> at, len |-> n]>> \o LiteralsFrom(text, at + n)

TokenFor(k) == <<"_", "_">> \o PlaceholderConst(k) \o <<"_", "_">>

\* text from position i on with the k-th and the later literals replaced by
\* their tokens
RECURSIVE Masked(_, _, _, _)
Masked(text, literals, k, i) ==
    IF k > Len(literals) THEN SubSeq(text, i, Len(text))
    ELSE SubSeq(text, i, literals[k].at - 1) \o TokenFor(k)
         \o Masked(text, literals, k + 1, literals[k].at + literals[k].len)

\* C33: the sanitized text has no 0x followed by 32 or more hex characters; it
\* is the text with its k-th literal replaced by __PLACEHOLDER_HEX_k__; the
\* mapping has one entry per literal, with the literal as value and
\* PLACEHOLDER_HEX_k as constant name.
C33_EveryLongHexMasked ==
    UnitSanitized =>
        LET literals == LiteralsFrom(unit.text, 1)
        IN /\ \A i \in 1..Len(unit.sanitized) : ~LongHexAt(unit.sanitized, i)
           /\ unit.sanitized = Masked(unit.text, literals, 1, 1)
           /\ Len(unit.placeholders) = Len(literals)
           /\ \A k \in 1..Len(literals) :
                 /\ unit.placeholders[k].token = TokenFor(k)
                 /\ unit.placeholders[k].value
                        = SubSeq(unit.text, literals[k].at,
                                 literals[k].at + literals[k].len - 1)
                 /\ unit.placeholders[k].const = PlaceholderConst(k)

C33_Witness ==
    /\ UnitSanitized
    /\ unit.text = LongHex \o Word \o LongHex
    /\ Len(unit.placeholders) = 2
    /\ unit.sanitized = TokenFor(1) \o Word \o TokenFor(2)

UnitRestored == unit.fn = "restore_placeholders"

\* the entries of the mapping whose token starts at position i of code
TokenAt(code, placeholders, i) ==
    {j \in 1..Len(placeholders) : OccursAt(code, i, placeholders[j].token)}

\* code from position i on with every token replaced by its literal
RECURSIVE Unmasked(_, _, _)
Unmasked(code, placeholders, i) ==
    LET starts == {n \in i..Len(code) : TokenAt(code, placeholders, n) # {}}
    IN IF starts = {} THEN SubSeq(code, i, Len(code))
       ELSE LET at == Least(starts)
                j == CHOOSE j \in TokenAt(code, placeholders, at) : TRUE
            IN SubSeq(code, i, at - 1) \o placeholders[j].value
               \o Unmasked(code, placeholders, at + Len(placeholders[j].token))

\* C34: the restored script is the script with every occurrence of every
\* mapped token replaced by its literal and everything else as it was; no
\* mapped token is left in it.
C34_EveryTokenRestored ==
    UnitRestored =>
        /\ unit.restored = Unmasked(unit.code, unit.placeholders, 1)
        /\ \A j \in 1..Len(unit.placeholders), i \in 1..Len(unit.restored) :
               ~OccursAt(unit.restored, i, unit.placeholders[j].token)

C34_Witness ==
    /\ UnitRestored
    /\ unit.code = PlaceholderToken(1) \o PlaceholderToken(2) \o Word \o PlaceholderToken(1)
    /\ Len(unit.placeholders) = 2
    /\ unit.restored = unit.placeholders[1].value \o unit.placeholders[2].value \o Word
                       \o unit.placeholders[1].value

\* ------------------------------------------------------ the watch loop
\* start_oracle_worker and _oracle_watch_loop (lines 84-105).  A task of the
\* loop is "new" until the event loop first runs it, then in turn "cycle"
\* (inside the try of lines 101-102) and "sleep" (line 105); "cancelled" and
\* "ended" tasks are done.
MaxTasks == 2
DoneTasks == {"cancelled", "ended"}
AliveTasks == {i \in 1..Len(watcher.tasks) : watcher.tasks[i] \notin DoneTasks}
TasksAt(position) == {i \in 1..Len(watcher.tasks) : watcher.tasks[i] = position}

\* faulty variant: the task at hand is never looked at
HandleAlive_Never == FALSE

\* line 89: self._oracle_task and not self._oracle_task.done()
HandleAlive ==
    watcher.oracle_task # <<>> /\ watcher.tasks[watcher.oracle_task[1]] \notin DoneTasks

\* lines 84-92; the coroutine has no await, so it runs in one piece
StartOracleWorker ==
    /\ (oracle_client /\ ~HandleAlive) => Len(watcher.tasks) < MaxTasks
    /\ watcher' =
          IF ~oracle_client
          THEN [watcher EXCEPT !.call = "skipped", !.calls = 1 - @]
          ELSE IF HandleAlive
               THEN [watcher EXCEPT !.call = "kept", !.calls = 1 - @]
               ELSE [oracle_task |-> <<Len(watcher.tasks) + 1>>,
                     tasks |-> Append(watcher.tasks, "new"),
                     call |-> "started", calls |-> 1 - watcher.calls]
    /\ UNCHANGED <<scheduler, debug_dir, tmp_files, sandbox, manual, cancel_requested,
                   parked, served, unit>>

\* lines 100-102: the loop calls _process_pending_requests, the first time or
\* after the sleep of line 105
WatcherEnters(i) ==
    /\ i \in TasksAt("new") \cup TasksAt("sleep")
    /\ TasksAt("cycle") = {}
    /\ pc = "idle"
    /\ watcher' = [watcher EXCEPT !.tasks[i] = "cycle"]
    /\ last' = [kind |-> "enter"]
    /\ UNCHANGED <<chain_now, config, stores, pc, pending, now_ts, price_override, results,
                   plocals, rlocals, slocals, history, trail, debug_dir, tmp_files, sandbox,
                   manual, cancel_requested, parked, served, unit>>

\* lines 111 and 115: the pending source or the block query raises
CycleFetchRaises ==
    /\ pc = "idle"
    /\ oracle_client
    /\ ~cancel_requested
    /\ last' = [kind |-> "fetch_raised"]
    /\ UNCHANGED <<chain_now, config, aside, stores, pc, pending, now_ts, price_override,
                   results, plocals, rlocals, slocals, history, trail>>

\* the call of line 102 has not begun, is under way, has returned, has raised
CycleNotBegun == pc = "idle" /\ last.kind = "enter"
CycleReturned == pc = "idle" /\ last.kind \in {"end", "start_empty", "no_client"}
CycleRaised ==
    pc = "idle" /\ (last.kind = "fetch_raised" \/ (last.kind = "settle" /\ ~last.ok))

\* the steps of the cycle the loop is in
WatcherCycleStep ==
    /\ TasksAt("cycle") # {}
    /\ pc = "idle" => CycleNotBegun
    /\ Next \/ CycleFetchRaises

\* line 102 returns; on to the sleep of line 105
WatcherReturns(i) ==
    /\ i \in TasksAt("cycle")
    /\ CycleReturned
    /\ watcher' = [watcher EXCEPT !.tasks[i] = "sleep"]
    /\ UNCHANGED <<scheduler, debug_dir, tmp_files, sandbox, manual, cancel_requested,
                   parked, served, unit>>

\* faulty variant: an exception of the cycle ends the loop
WatcherCatches_Ends(i) ==
    /\ i \in TasksAt("cycle")
    /\ CycleRaised
    /\ watcher' = [watcher EXCEPT !.tasks[i] = "ended"]
    /\ UNCHANGED <<scheduler, debug_dir, tmp_files, sandbox, manual, cancel_requested,
                   parked, served, unit>>

\* lines 103-105: the exception is caught and printed; on to the sleep
WatcherCatches(i) ==
    /\ i \in TasksAt("cycle")
    /\ CycleRaised
    /\ watcher' = [watcher EXCEPT !.tasks[i] = "sleep"]
    /\ UNCHANGED <<scheduler, debug_dir, tmp_files, sandbox, manual, cancel_requested,
                   parked, served, unit>>

\* the task is cancelled before its first turn or in the sleep of line 105:
\* CancelledError is not an Exception and leaves the loop
WatcherCancelled(i) ==
    /\ i \in TasksAt("new") \cup TasksAt("sleep")
    /\ watcher' = [watcher EXCEPT !.tasks[i] = "cancelled"]
    /\ UNCHANGED <<scheduler, debug_dir, tmp_files, sandbox, manual, cancel_requested,
                   parked, served, unit>>

WatcherIds == 1..MaxTasks

NextWatcher ==
    \/ StartOracleWorker
    \/ \E i \in WatcherIds : WatcherEnters(i)
    \/ WatcherCycleStep
    \/ \E i \in WatcherIds : WatcherReturns(i)
    \/ \E i \in WatcherIds : WatcherCatches(i)
    \/ \E i \in WatcherIds : WatcherCancelled(i)

SpecWatcher == InitServer /\ [][NextWatcher]_vars

\* the event loop runs every task that is ready: what the cycle returns or
\* raises is handled, and the loop is entered again when the sleep is over
WatcherFairness ==
    /\ WF_watcher(\E i \in WatcherIds : WatcherEnters(i))
    /\ WF_watcher(\E i \in WatcherIds : WatcherReturns(i))
    /\ WF_watcher(\E i \in WatcherIds : WatcherCatches(i))
SpecWatcherFair == SpecWatcher /\ WatcherFairness

\* ---- claims about the watch loop
StartCalled == watcher'.calls # watcher.calls

\* C35: start_oracle_worker starts the watch loop when the oracle client is
\* configured and no watcher is alive, starts nothing when the client is missing
\* or a watcher is alive, and so at most one watcher task is alive at any time.
C35_AtMostOneWatcher ==
    /\ [](Cardinality(AliveTasks) <= 1)
    /\ [][StartCalled =>
            /\ oracle_client => Cardinality(AliveTasks') = 1
            /\ ~oracle_client => watcher'.tasks = watcher.tasks
            /\ AliveTasks # {} => watcher'.tasks = watcher.tasks
            /\ (oracle_client /\ AliveTasks = {})
                   => Len(watcher'.tasks) = Len(watcher.tasks) + 1]_vars

C35_Witness ==
    /\ watcher.call = "kept"
    /\ Len(watcher.tasks) = 2
    /\ watcher.tasks[1] = "cancelled"
    /\ AliveTasks = {2}

\* C39: an exception raised inside a cycle of the watch loop does not end the
\* loop: unless the task is cancelled, the loop goes on to its next cycle.
C39_LoopSurvivesCycleErrors ==
    \A i \in WatcherIds :
        (i \in TasksAt("cycle") /\ CycleRaised)
            ~> ((i \in TasksAt("cycle") /\ CycleNotBegun) \/ i \in TasksAt("cancelled"))

C39_Witness ==
    /\ TasksAt("sleep") # {}
    /\ last.kind = "settle"
    /\ ~last.ok
    /\ pc = "idle"

UnitFetched == unit.fn = "fetch_request"

\* the accessor whose answer fetch_request uses: getRequest, or requests when
\* getRequest is not there or fails with an error of the contract call
Answering ==
    IF unit.has_get_request /\ unit.get_request.raised \notin CaughtErrors
    THEN unit.get_request
    ELSE unit.requests

HandlingStarts == pc = "idle" /\ pc' = "loop"

\* the head of the pending list is reported unsettled, and its latest successful
\* settlement is more than the window back
SettledLongAgo ==
    /\ InLoop
    /\ ~Current.settled
    /\ CurrentId \in DOMAIN last_ok
    /\ now_ts - last_ok[CurrentId] > recently_settled_window

\* C37: when the handling of a non-empty pending list starts, exactly the entries
\* of the recently-settled set that are more than 300 s older than the latest
\* block time are dropped, the others are kept as they are; a request settled
\* more than 300 s ago that is still reported pending and unsettled is not
\* skipped as recently settled.
C37_RecentlySettledPrunedAfterWindow ==
    /\ [][HandlingStarts =>
            /\ DOMAIN recently_settled' =
                   {k \in DOMAIN recently_settled :
                       ~(now_ts' - recently_settled[k] > recently_settled_window)}
            /\ \A k \in DOMAIN recently_settled' : recently_settled'[k] = recently_settled[k]
         ]_vars
    /\ [](SettledLongAgo => CurrentId \notin DOMAIN recently_settled)
    /\ [](last.kind = "skip_recent" =>
             /\ LastId \in DOMAIN last_ok
             /\ ~(now_ts - last_ok[LastId] > recently_settled_window))

\* C37 witness: a request settled more than 300 s ago is being prepared again.
C37_Witness ==
    /\ pc = "generate"
    /\ CurrentId \in DOMAIN last_ok
    /\ now_ts - last_ok[CurrentId] > recently_settled_window
    /\ CurrentId \notin DOMAIN recently_settled

\* the three findings _analyze_script reports as issues, read off the script
HardIssue(code) == ~code.parses \/ ~code.has_resolve \/ ~code.resolve_returns

\* C38: every entry of the prepared-script cache holds a script whose analysis
\* succeeded, and the script handed to the sandbox executor by the cycle is
\* such a script: none with a hard analysis issue is cached or executed.
C38_OnlyAnalysedScriptsCachedOrRun ==
    /\ \A id \in DOMAIN prepared_requests :
           /\ prepared_requests[id].analysis.success
           /\ prepared_requests[id].analysis.issues = <<>>
           /\ ~HardIssue(prepared_requests[id].script)
    /\ pc = "execute" => ~HardIssue(r_prepared[1].script)
    /\ last.kind = "exec" => ~HardIssue(last.script)

\* C38 witness: a script with warnings only was cached and then run, and failed,
\* in the sandbox.
C38_Witness ==
    /\ last.kind = "exec"
    /\ ~last.success
    /\ last.script = ScriptBare
    /\ ~HardIssue(last.script)

\* a failed settlement call leaves the failure tracker entry of its request alone
FailedSettlementNotCounted ==
    (last.kind = "settle" /\ ~last.ok) => Get(failure_state, LastId) = last.failures_before

\* C40 (as claimed): in one cycle the failure count of a request is incremented
\* at most once, however many generator calls and sandbox runs failed for it in
\* that cycle, and a failed settlement call never increments it.
C40_CountedOncePerCycle ==
    /\ \A id \in DOMAIN cycle_log : cycle_log[id].bumps <= 1
    /\ FailedSettlementNotCounted

\* C40 (amended): in one pass of the cycle over a pending entry the failure count
\* of the request is incremented at most once, by the step that ends the pass
\* in failure, however many generator calls and sandbox runs failed in the
\* pass (a request listed twice can be counted once per entry); a failed
\* settlement call never increments it.
C40_CountedOncePerPass ==
    /\ (PipelineStep /\ ~last.fail) =>
           /\ pc \in {"generate", "execute", "settle", "loop"}
           /\ CountOf(failure_state, LastId) <= CountBefore(last.before)
    /\ PipelineEndedInFailure =>
           /\ pc = "loop"
           /\ CountOf(failure_state, LastId) <= CountBefore(last.before) + 1
    /\ FailedSettlementNotCounted

\* C40 witness: the count of a request listed twice was raised a second time in
\* the cycle, by the last of two failed runs of its second pass.
C40_Witness ==
    /\ PipelineEndedInFailure
    /\ last.kind = "exec"
    /\ last.attempt = max_ai_settlement_attempts
    /\ cycle_log[LastId].bumps = 2
    /\ CountOf(failure_state, LastId) = CountBefore(last.before) + 1

====
